---- MODULE Spec2Model ----
(***************************************************************************)
(* Semantic indexing service (src/services/agents/semantic_index.py):      *)
(* chunking of file content, the index_repository pipeline over the        *)
(* embedding provider and the code_chunks table, and the similarity        *)
(* queries.                                                                *)
(*                                                                         *)
(* Text is modelled at character level: a Python str is a sequence of      *)
(* one-character strings, a list of lines is a sequence of such sequences. *)
(***************************************************************************)
EXTENDS Integers, Sequences, FiniteSets, TLC

VARIABLES
    inLines,               \* chunking harness: the lines of the content under test
    inLang,                \* chunking harness: the language tag of the content
    out,                   \* chunking harness: the last call and what it returned
    files,                 \* index_repository: file_tree['files']
    repository_id,         \* index_repository: the repository_id argument
    pc,                    \* index_repository: the coroutine's position
    indexable_files,       \* index_repository: local indexable_files
    fileIdx,               \* index_repository: position of the for loop over files
    chunks,                \* index_repository: local chunks of the current file
    chunkIdx,              \* index_repository: position of the for loop over chunks
    embedding,             \* index_repository: local embedding of the current chunk
    chunks_created,        \* index_repository: local counter
    embeddings_generated,  \* index_repository: local counter
    summary,               \* index_repository: the returned dict (once pc = "done")
    log,                   \* history: the calls index_repository made, in order
    store,                 \* the code_chunks table, rows in insertion order
    query,                 \* search: the arguments of the last search call
    results,               \* search: the list the last search call returned
    reply,                 \* search: whether the last call raised, and what it asked
                           \*         of the database
    suspended              \* event loop: the frame of the index_repository coroutine
                           \*             that is not running

chunkVars == <<inLines, inLang, out>>
indexVars == <<files, repository_id, pc, indexable_files, fileIdx, chunks, chunkIdx,
               embedding, chunks_created, embeddings_generated, summary, log>>
searchVars == <<query, results, reply>>
vars == <<chunkVars, indexVars, store, searchVars, suspended>>

-----------------------------------------------------------------------------
(* Characters and the str methods the service uses.                        *)

Lower == {"a","b","c","d","e","f","g","h","i","j","k","l","m",
          "n","o","p","q","r","s","t","u","v","w","x","y","z"}
Upper == {"A","B","C","D","E","F","G","H","I","J","K","L","M",
          "N","O","P","Q","R","S","T","U","V","W","X","Y","Z"}
Digit == {"0","1","2","3","4","5","6","7","8","9"}

\* [a-zA-Z_] and [a-zA-Z0-9_] of the extraction patterns
IdentStart == Lower \cup Upper \cup {"_"}
IdentChar == IdentStart \cup Digit

\* \s of the patterns, and what str.strip() / str.lstrip() remove
Space == {" ", "\t", "\n", "\r"}

Min(a, b) == IF a < b THEN a ELSE b

\* s.count(c) for a one-character c
Count(s, c) == Cardinality({i \in 1..Len(s) : s[i] = c})

\* the literal lit occurs in s at position i
StartsAt(s, i, lit) ==
    /\ i >= 1
    /\ i + Len(lit) - 1 <= Len(s)
    /\ \A k \in 1..Len(lit) : s[i + k - 1] = lit[k]

\* s.startswith(lit)
StartsWith(s, lit) == StartsAt(s, 1, lit)

\* lit in s
Contains(s, lit) == \E i \in 1..(Len(s) + 1) : StartsAt(s, i, lit)

\* the first position >= i of s that holds no character of class, Len(s)+1 if none
RECURSIVE SkipWhile(_, _, _)
SkipWhile(s, i, class) ==
    IF i <= Len(s) /\ s[i] \in class THEN SkipWhile(s, i + 1, class) ELSE i

\* len(line) - len(line.lstrip())
LeadingSpace(line) == SkipWhile(line, 1, Space) - 1

\* the last position <= i of s that holds no whitespace, 0 if none
RECURSIVE LastNonSpace(_, _)
LastNonSpace(s, i) ==
    IF i >= 1 /\ s[i] \in Space THEN LastNonSpace(s, i - 1) ELSE i

\* line.strip()
Strip(line) == SubSeq(line, SkipWhile(line, 1, Space), LastNonSpace(line, Len(line)))

\* '\n'.join(lines)
RECURSIVE Join(_)
Join(lines) ==
    IF Len(lines) = 0 THEN <<>>
    ELSE IF Len(lines) = 1 THEN lines[1]
    ELSE lines[1] \o <<"\n">> \o Join(Tail(lines))

\* the first position >= i of s that holds c, Len(s)+1 if none
RECURSIVE Find(_, _, _)
Find(s, i, c) ==
    IF i <= Len(s) /\ s[i] # c THEN Find(s, i + 1, c) ELSE i

\* content.split('\n')
RECURSIVE Split(_)
Split(content) ==
    LET nl == Find(content, 1, "\n")
    IN  IF nl > Len(content) THEN <<content>>
        ELSE <<SubSeq(content, 1, nl - 1)>> \o Split(SubSeq(content, nl + 1, Len(content)))

UpperSeq == <<"A","B","C","D","E","F","G","H","I","J","K","L","M",
              "N","O","P","Q","R","S","T","U","V","W","X","Y","Z">>
LowerSeq == <<"a","b","c","d","e","f","g","h","i","j","k","l","m",
              "n","o","p","q","r","s","t","u","v","w","x","y","z">>

\* str.lower()
ToLower(s) ==
    [i \in 1..Len(s) |->
        IF s[i] \in Upper THEN LowerSeq[CHOOSE k \in 1..26 : UpperSeq[k] = s[i]] ELSE s[i]]


-----------------------------------------------------------------------------
(* _extract_functions: re.findall of the language's pattern, then          *)
(* [match[0] or match[1] for match in matches if match[0] or match[1]].    *)
(* A match is [ok, g1, g2, end]: the two groups and the position after it.  *)

NoMatch == [ok |-> FALSE, g1 |-> <<>>, g2 |-> <<>>, end |-> 0]

NoName == [ok |-> FALSE, name |-> <<>>, next |-> 0]

\* the first alternative that matches
FirstOk(m1, m2) == IF m1.ok THEN m1 ELSE m2

\* ([a-zA-Z_][a-zA-Z0-9_]*) matched from b to c - 1
NameFound(s, b, c) == [ok |-> TRUE, name |-> SubSeq(s, b, c - 1), next |-> c]

\* \s+([a-zA-Z_][a-zA-Z0-9_]*) at position a, the whitespace ending before b
MatchNameAt(s, a, b) ==
    IF b > a /\ b <= Len(s) /\ s[b] \in IdentStart
    THEN NameFound(s, b, SkipWhile(s, b, IdentChar))
    ELSE NoName

\* kw\s+([a-zA-Z_][a-zA-Z0-9_]*) matched at position k of s
MatchName(s, k, kw) ==
    IF StartsAt(s, k, kw)
    THEN MatchNameAt(s, k + Len(kw), SkipWhile(s, k + Len(kw), Space))
    ELSE NoName

\* \( at position p, after the name m
ParenAt(s, m, p) ==
    IF p <= Len(s) /\ s[p] = "("
    THEN [ok |-> TRUE, g1 |-> m.name, g2 |-> <<>>, end |-> p + 1]
    ELSE NoMatch

\* \s*\( after the name m
ThenParen(s, m) ==
    IF m.ok THEN ParenAt(s, m, SkipWhile(s, m.next, Space)) ELSE NoMatch

\* kw\s+([a-zA-Z_][a-zA-Z0-9_]*)\s*\( matched at position k of s
MatchNameParen(s, k, kw) == ThenParen(s, MatchName(s, k, kw))

\* async\s+ at position k, the whitespace ending before b, then the definition
AfterAsync(s, a, b, kw) == IF b > a THEN MatchNameParen(s, b, kw) ELSE NoMatch

AsyncPrefixed(s, k, kw) ==
    IF StartsAt(s, k, <<"a", "s", "y", "n", "c">>)
    THEN AfterAsync(s, k + 5, SkipWhile(s, k + 5, Space), kw)
    ELSE NoMatch

\* (?:async\s+)?kw\s+(name)\s*\( : the optional group is tried first, and the
\* pattern without it when the rest does not match after it
WithAsync(s, k, kw) == FirstOk(AsyncPrefixed(s, k, kw), MatchNameParen(s, k, kw))

\* =>  at position t, after \([^)]*\)\s*
ArrowAt(s, m, t) ==
    IF StartsAt(s, t, <<"=", ">">>)
    THEN [ok |-> TRUE, g1 |-> <<>>, g2 |-> m.name, end |-> t + 2]
    ELSE NoMatch

\* \([^)]*\)\s*=> at position q, the first ")" after it at position r
ParamsAt(s, m, q, r) ==
    IF q <= Len(s) /\ s[q] = "(" /\ r <= Len(s)
    THEN ArrowAt(s, m, SkipWhile(s, r + 1, Space))
    ELSE NoMatch

\* (?:function|\([^)]*\)\s*=>) at position q
ValueAt(s, m, q) ==
    IF StartsAt(s, q, <<"f", "u", "n", "c", "t", "i", "o", "n">>)
    THEN [ok |-> TRUE, g1 |-> <<>>, g2 |-> m.name, end |-> q + 8]
    ELSE ParamsAt(s, m, q, Find(s, q + 1, ")"))

\* =\s*(?:...) at position p
AssignAt(s, m, p) ==
    IF p <= Len(s) /\ s[p] = "="
    THEN ValueAt(s, m, SkipWhile(s, p + 1, Space))
    ELSE NoMatch

\* \s*=\s*(?:...) after the name m
ThenAssign(s, m) ==
    IF m.ok THEN AssignAt(s, m, SkipWhile(s, m.next, Space)) ELSE NoMatch

\* const\s+([a-zA-Z_][a-zA-Z0-9_]*)\s*=\s*(?:function|\([^)]*\)\s*=>) at position k
MatchConst(s, k) == ThenAssign(s, MatchName(s, k, <<"c", "o", "n", "s", "t">>))

\* the language's function pattern matched at position k of s:
\* python      (?:async\s+)?def\s+(name)\s*\(
\* javascript  (?:async\s+)?function\s+(name)\s*\(|const\s+(name)\s*=\s*(?:...)
MatchFunction(s, k, language) ==
    FirstOk(WithAsync(s, k, IF language = "python" THEN <<"d", "e", "f">> ELSE <<"f", "u", "n", "c", "t", "i", "o", "n">>),
            IF language = "python" THEN NoMatch ELSE MatchConst(s, k))

RECURSIVE FindAllFunctions(_, _, _)

\* the match m found (or not) at position i, and the matches after it
Collect(s, i, language, m) ==
    IF m.ok THEN <<m>> \o FindAllFunctions(s, m.end, language)
    ELSE FindAllFunctions(s, i + 1, language)

\* re.findall(pattern, content): the non-overlapping matches from left to right
FindAllFunctions(s, i, language) ==
    IF i > Len(s) THEN <<>>
    ELSE Collect(s, i, language, MatchFunction(s, i, language))

\* match[0] or match[1]: for a pattern with one group findall returns the captured
\* strings themselves, so match[0] is the first character of the name (never empty,
\* so match[1] is not evaluated); with two groups it returns pairs of group values
FirstOrSecond(m, language) ==
    IF language = "python" THEN <<m.g1[1]>>
    ELSE IF m.g1 # <<>> THEN m.g1 ELSE m.g2

\* [match[0] or match[1] for match in matches if match[0] or match[1]]
Names(matches, language) ==
    [i \in 1..Len(matches) |-> FirstOrSecond(matches[i], language)]

ExtractFunctions(content, language) ==
    IF language \in {"python", "javascript", "typescript"}
    THEN Names(FindAllFunctions(content, 1, language), language)
    ELSE <<>>

\* _extract_imports compiles its patterns with re.findall; both Java patterns,
\* r'import\s+([a-zA-Z_][a-zA-Z0-9_.*?);', leave the character set unterminated,
\* so re.findall raises re.error for language 'java'
ImportPatternsCompile(language) == language # "java"

\* _create_chunk: raised when one of the extractors raises, else the CodeChunk
\* (of its metadata the two counts; the md5 digest of the content is left out)
CreateChunk(content, file_path, language, start_line, end_line) ==
    [raised |-> ~ImportPatternsCompile(language),
     chunk  |-> [file_path  |-> file_path,
                 content    |-> content,
                 start_line |-> start_line,
                 end_line   |-> end_line,
                 language   |-> language,
                 functions  |-> ExtractFunctions(content, language),
                 metadata   |-> [line_count |-> Count(content, "\n") + 1,
                                 char_count |-> Len(content)]]]

\* one of the keywords occurs in content.lower()
AnyKeyword(lowered, keywords) == \E keyword \in keywords : Contains(lowered, keyword)

\* fault variant of DetermineChunkType: the function list is looked at first
DetermineChunkTypeFunctionFirst(content, functions, classes) ==
    IF functions # <<>> THEN "function"
    ELSE IF classes # <<>> THEN "class"
    ELSE IF AnyKeyword(ToLower(content), {<<"c", "o", "n", "f", "i", "g">>, <<"s", "e", "t", "t", "i", "n", "g", "s">>, <<"e", "n", "v">>}) THEN "config"
    ELSE IF AnyKeyword(ToLower(content), {<<"t", "e", "s", "t">>, <<"s", "p", "e", "c">>}) THEN "test"
    ELSE "general"

\* _determine_chunk_type(content, functions, classes)
DetermineChunkType(content, functions, classes) ==
    IF classes # <<>> THEN "class"
    ELSE IF functions # <<>> THEN "function"
    ELSE IF AnyKeyword(ToLower(content), {<<"c", "o", "n", "f", "i", "g">>, <<"s", "e", "t", "t", "i", "n", "g", "s">>, <<"e", "n", "v">>}) THEN "config"
    ELSE IF AnyKeyword(ToLower(content), {<<"t", "e", "s", "t">>, <<"s", "p", "e", "c">>}) THEN "test"
    ELSE "general"

-----------------------------------------------------------------------------
(* The chunking strategies.  Each returns [raised, chunks]: raised when a   *)
(* _create_chunk call raised (the exception leaves the strategy, which then *)
(* returns nothing), else the list of chunks.                               *)

chunk_size == 500
chunk_overlap == 50
min_content_length == 50

Raised == [raised |-> TRUE, chunks |-> <<>>]

\* the state of a strategy's loop: the locals of the function
LoopInit ==
    [raised |-> FALSE, chunks |-> <<>>, current_chunk |-> <<>>, current_start |-> 0,
     indent_level |-> 0, in_function |-> FALSE, in_class |-> FALSE, brace_count |-> 0]

\* chunks.append(c) for the chunk c that _create_chunk made, unless it raised
AppendChunk(st, c) ==
    IF c.raised THEN [st EXCEPT !.raised = TRUE]
    ELSE [st EXCEPT !.chunks = Append(st.chunks, c.chunk)]

\* chunks.append(self._create_chunk('\n'.join(current_chunk), ..., current_start, end_line, ...))
Flush(st, file_path, language, end_line) ==
    AppendChunk(st, CreateChunk(Join(st.current_chunk), file_path, language,
                                st.current_start, end_line))

\* return chunks, unless _create_chunk raised
Returned(st) == IF st.raised THEN Raised ELSE [raised |-> FALSE, chunks |-> st.chunks]

\* "Add final chunk", and the return
Finish(st, file_path, language, current_line) ==
    Returned(IF st.current_chunk # <<>> /\ ~st.raised
             THEN Flush(st, file_path, language, current_line) ELSE st)

\* if new_indent < indent_level and not in_function and not in_class
EndOfBlock(st, line) ==
    /\ Strip(line) # <<>>
    /\ LeadingSpace(line) < st.indent_level
    /\ ~st.in_function
    /\ ~st.in_class

\* "End of block": the chunk is appended if current_chunk is not empty
FlushBlock(st, current_line, file_path) ==
    IF st.current_chunk # <<>>
    THEN [Flush(st, file_path, "python", current_line - 1) EXCEPT !.current_chunk = <<>>]
    ELSE st

\* "Track indentation": the block of if line.strip()
TrackIndent(st, line, current_line, file_path, end_of_block) ==
    IF Strip(line) = <<>> THEN st
    ELSE [(IF end_of_block
           THEN [FlushBlock(st, current_line, file_path) EXCEPT !.current_start = current_line]
           ELSE st)
          EXCEPT !.indent_level = LeadingSpace(line)]

\* "Detect function/class definitions"
DetectDefinitions(st, line, stripped) ==
    IF /\ StartsWith(stripped, <<"d", "e", "f", " ">>) \/ StartsWith(stripped, <<"a", "s", "y", "n", "c", " ", "d", "e", "f", " ">>)
       /\ ~st.in_class
    THEN [st EXCEPT !.in_function = TRUE]
    ELSE IF StartsWith(stripped, <<"c", "l", "a", "s", "s", " ">>)
    THEN [st EXCEPT !.in_class = TRUE]
    ELSE IF stripped # <<>> /\ ~StartsWith(line, <<" ">>) /\ st.indent_level = 0
    THEN [st EXCEPT !.in_function = FALSE, !.in_class = FALSE]
    ELSE st

\* current_chunk.append(line)
AppendLine(st, line) == [st EXCEPT !.current_chunk = Append(@, line)]

\* one iteration of the loop of _chunk_python_code, current_line = i + 1
PythonStep(st, line, current_line, file_path) ==
    AppendLine(DetectDefinitions(TrackIndent(st, line, current_line, file_path,
                                             EndOfBlock(st, line)),
                                 line, Strip(line)),
               line)

\* brace_count += line.count('{') - line.count('}')
TrackBraces(st, line) ==
    [st EXCEPT !.brace_count = @ + Count(line, "{") - Count(line, "}")]

\* the chunk is appended if current_chunk is not empty, and a new one starts
FlushBoundary(st, boundary, current_line, file_path, language) ==
    IF boundary /\ st.current_chunk # <<>>
    THEN [Flush(st, file_path, language, current_line - 1)
              EXCEPT !.current_chunk = <<>>, !.current_start = current_line]
    ELSE st

\* "Start new chunk on function/module boundaries"
JavascriptBoundary(st, stripped) ==
    \/ StartsWith(stripped, <<"f", "u", "n", "c", "t", "i", "o", "n", " ">>)
    \/ StartsWith(stripped, <<"c", "o", "n", "s", "t", " ">>) /\ Contains(stripped, <<"=">>)
    \/ StartsWith(stripped, <<"c", "l", "a", "s", "s", " ">>)
    \/ /\ st.brace_count = 0
       /\ st.current_chunk # <<>>
       /\ ~StartsWith(stripped, <<"/", "/">>)

\* "Start new chunk on class/method boundaries"
JavaBoundary(st, stripped) ==
    \/ StartsWith(stripped, <<"p", "u", "b", "l", "i", "c", " ", "c", "l", "a", "s", "s", " ">>)
    \/ StartsWith(stripped, <<"p", "r", "i", "v", "a", "t", "e", " ", "c", "l", "a", "s", "s", " ">>)
    \/ StartsWith(stripped, <<"p", "u", "b", "l", "i", "c", " ">>) /\ Contains(stripped, <<"(">>)
    \/ /\ st.brace_count = 0
       /\ st.current_chunk # <<>>
       /\ ~StartsWith(stripped, <<"/", "/">>)

\* the loop body after the brace count: the boundary test, the flush, the append
JavascriptAfterBraces(st, line, current_line, file_path) ==
    AppendLine(FlushBoundary(st, JavascriptBoundary(st, Strip(line)), current_line,
                             file_path, "javascript"),
               line)

JavaAfterBraces(st, line, current_line, file_path) ==
    AppendLine(FlushBoundary(st, JavaBoundary(st, Strip(line)), current_line,
                             file_path, "java"),
               line)

\* one iteration of the loop of _chunk_javascript_code
JavascriptStep(st, line, current_line, file_path) ==
    JavascriptAfterBraces(TrackBraces(st, line), line, current_line, file_path)

\* one iteration of the loop of _chunk_java_code
JavaStep(st, line, current_line, file_path) ==
    JavaAfterBraces(TrackBraces(st, line), line, current_line, file_path)

\* the step of the strategy chosen for language
Step(st, line, current_line, file_path, language) ==
    IF language = "python" THEN PythonStep(st, line, current_line, file_path)
    ELSE IF language = "java" THEN JavaStep(st, line, current_line, file_path)
    ELSE JavascriptStep(st, line, current_line, file_path)

\* for i, line in enumerate(lines): the loop stops where _create_chunk raised
RECURSIVE Loop(_, _, _, _, _)
Loop(st, lines, i, file_path, language) ==
    IF i > Len(lines) \/ st.raised THEN st
    ELSE Loop(Step(st, lines[i], i, file_path, language), lines, i + 1, file_path, language)

\* current_line after the loop: 0 if lines is empty, else the number of lines
LastLine(lines) == Len(lines)

\* _chunk_python_code(lines, file_path)
ChunkPythonCode(lines, file_path) ==
    Finish(Loop(LoopInit, lines, 1, file_path, "python"), file_path, "python", LastLine(lines))

\* _chunk_javascript_code(lines, file_path)
ChunkJavascriptCode(lines, file_path) ==
    Finish(Loop(LoopInit, lines, 1, file_path, "javascript"), file_path, "javascript",
           LastLine(lines))

\* _chunk_java_code(lines, file_path)
ChunkJavaCode(lines, file_path) ==
    Finish(Loop(LoopInit, lines, 1, file_path, "java"), file_path, "java", LastLine(lines))

\* fault variant of WindowChunk: start_line = lines_before
WindowChunkZeroBased(chunk_content, file_path, language, lines_before) ==
    CreateChunk(chunk_content, file_path, language, lines_before,
                lines_before + Count(chunk_content, "\n"))

\* the chunk of the window content[start:end], lines_before = content[:start].count('\n')
WindowChunk(chunk_content, file_path, language, lines_before) ==
    CreateChunk(chunk_content, file_path, language, lines_before + 1,
                lines_before + 1 + Count(chunk_content, "\n"))

\* fault variant of SizeWindow: end = min(start + chunk_size - chunk_overlap, ...)
SizeWindowWithoutOverlap(content, file_path, language, start) ==
    WindowChunk(SubSeq(content, start + 1,
                       Min(start + chunk_size - chunk_overlap, Len(content))),
                file_path, language, Count(SubSeq(content, 1, start), "\n"))

\* the window of _chunk_code_by_size that starts at offset start (0-based)
SizeWindow(content, file_path, language, start) ==
    WindowChunk(SubSeq(content, start + 1, Min(start + chunk_size, Len(content))),
                file_path, language, Count(SubSeq(content, 1, start), "\n"))

\* len(range(0, content_length, step))
WindowCount(content_length, step) == (content_length + step - 1) \div step

\* the windows' chunks in order; an exception in one of them leaves the function
Windows(made) ==
    IF \E i \in 1..Len(made) : made[i].raised THEN Raised
    ELSE [raised |-> FALSE, chunks |-> [i \in 1..Len(made) |-> made[i].chunk]]

\* _chunk_code_by_size(content, file_path, language):
\* for start in range(0, content_length, self.chunk_size - self.chunk_overlap)
ChunkCodeBySize(content, file_path, language) ==
    Windows([i \in 1..WindowCount(Len(content), chunk_size - chunk_overlap) |->
                SizeWindow(content, file_path, language,
                           (i - 1) * (chunk_size - chunk_overlap))])

\* the dispatch of _chunk_code_by_structure on the lines of content
ChunkLines(lines, content, file_path, language) ==
    IF language = "python" THEN ChunkPythonCode(lines, file_path)
    ELSE IF language \in {"javascript", "typescript"}
    THEN ChunkJavascriptCode(lines, file_path)
    ELSE IF language = "java" THEN ChunkJavaCode(lines, file_path)
    ELSE ChunkCodeBySize(content, file_path, language)

\* _chunk_code_by_structure(content, file_path, language)
ChunkCodeByStructure(content, file_path, language) ==
    ChunkLines(Split(content), content, file_path, language)

\* dict.get(key, default)
Get(d, key, default) == IF key \in DOMAIN d THEN d[key] ELSE default

\* fault variant of ChunkContent: _chunk_file without its minimum-length check
ChunkContentNoMinimum(content, file_path, language) ==
    IF language \in {"javascript", "typescript", "python", "java"}
    THEN ChunkCodeByStructure(content, file_path, language)
    ELSE ChunkCodeBySize(content, file_path, language)

\* the body of _chunk_file for the content and the language read from file_info
ChunkContent(content, file_path, language) ==
    IF content = <<>> \/ Len(content) < min_content_length
    THEN [raised |-> FALSE, chunks |-> <<>>]
    ELSE IF language \in {"javascript", "typescript", "python", "java"}
    THEN ChunkCodeByStructure(content, file_path, language)
    ELSE ChunkCodeBySize(content, file_path, language)

\* fault variant of ChunkFile: a missing language tag is read as 'python'
ChunkFileDefaultPython(file_info) ==
    ChunkContent(Get(file_info, "content_preview", <<>>), file_info.path,
                 Get(file_info, "language", "python"))

\* _chunk_file(file_info)
ChunkFile(file_info) ==
    ChunkContent(Get(file_info, "content_preview", <<>>), file_info.path,
                 Get(file_info, "language", "unknown"))

-----------------------------------------------------------------------------
(* Inputs: the lines and the file descriptors the model draws from.         *)

MaxLines == 3

\* Scenario A of the specification, split at '\n'
ScenarioA ==
    <<"d", "e", "f", " ", "f", "o", "o", "(", ")", ":", "\n", " ", " ", " ", " ", "r", "e", "t", "u", "r", "n", " ", "1", "\n", "\n", "d", "e", "f", " ", "b", "a", "r", "(", ")", ":", "\n", " ", " ", " ", " ", "r", "e", "t", "u", "r", "n", " ", "2", "\n">>

PythonLines ==
    {<<"d", "e", "f", " ", "f", "o", "o", "(", ")", ":">>, <<" ", " ", " ", " ", "r", "e", "t", "u", "r", "n", " ", "1">>, <<>>, <<"d", "e", "f", " ", "b", "a", "r", "(", ")", ":">>, <<" ", " ", " ", " ", "r", "e", "t", "u", "r", "n", " ", "2">>,
     <<"x", " ", "=", " ", "1">>, <<"c", "l", "a", "s", "s", " ", "A", ":">>}

JavascriptLines ==
    {<<"f", "u", "n", "c", "t", "i", "o", "n", " ", "f", "(", ")", " ", "{">>, <<"}">>, <<"i", "f", " ", "(", "x", ")", " ", "{">>, <<"/", "/", " ", "c">>, <<"c", "o", "n", "s", "t", " ", "g", " ", "=", " ", "(", ")", " ", "=", ">", " ", "{">>,
     <<"c", "l", "a", "s", "s", " ", "A", " ", "{">>, <<"x", "(", ")", ";">>}

JavaLines ==
    {<<"p", "u", "b", "l", "i", "c", " ", "c", "l", "a", "s", "s", " ", "A", " ", "{">>, <<"p", "u", "b", "l", "i", "c", " ", "i", "n", "t", " ", "f", "(", ")", " ", "{">>, <<"}">>, <<"/", "/", " ", "c">>, <<"i", "n", "t", " ", "x", ";">>}

\* a line one character shorter than the step of the size-based windows, so that
\* contents made of it put their newlines on the window starts
LongLine ==
    [i \in 1..(chunk_size - chunk_overlap - 1) |-> IF i % 8 = 0 THEN " " ELSE "a"]

TextLines ==
    {<<"e", "x", "p", "o", "r", "t", " ", "A", "P", "P", "_", "E", "N", "V", "=", "1">>, <<"e", "c", "h", "o", " ", "g", "o">>, <<>>, LongLine}

Languages == {"python", "javascript", "typescript", "java", "shell"}

LinesOf(language) ==
    IF language = "python" THEN PythonLines
    ELSE IF language \in {"javascript", "typescript"} THEN JavascriptLines
    ELSE IF language = "java" THEN JavaLines
    ELSE TextLines

FilePy ==
    [path |-> <<"s", "r", "c", "/", "a", "p", "p", ".", "p", "y">>, extension |-> <<".", "p", "y">>, size |-> 50, language |-> "python",
     content_preview |-> <<"i", "t", "e", "m", "s", " ", "=", " ", "[", "\n", " ", " ", " ", " ", "1", ",", "\n", "]", "\n", "d", "e", "f", " ", "f", "o", "o", "(", ")", ":", "\n", " ", " ", " ", " ", "r", "e", "t", "u", "r", "n", " ", "i", "t", "e", "m", "s", "[", "0", "]", "\n">>]

FileJs ==
    [path |-> <<"s", "r", "c", "/", "a", "p", "p", ".", "j", "s">>, extension |-> <<".", "j", "s">>, size |-> 53, language |-> "javascript",
     content_preview |-> <<"f", "u", "n", "c", "t", "i", "o", "n", " ", "h", "a", "n", "d", "l", "e", "r", "(", "r", "e", "q", "u", "e", "s", "t", ")", " ", "{", "\n", " ", " ", "r", "e", "t", "u", "r", "n", " ", "r", "e", "q", "u", "e", "s", "t", ".", "b", "o", "d", "y", ";", "\n", "}", "\n">>]

FileJava ==
    [path |-> <<"s", "r", "c", "/", "A", "p", "p", ".", "j", "a", "v", "a">>, extension |-> <<".", "j", "a", "v", "a">>, size |-> 51, language |-> "java",
     content_preview |-> <<"p", "u", "b", "l", "i", "c", " ", "c", "l", "a", "s", "s", " ", "A", "p", "p", " ", "{", "\n", " ", " ", "p", "u", "b", "l", "i", "c", " ", "i", "n", "t", " ", "f", "(", ")", " ", "{", " ", "r", "e", "t", "u", "r", "n", " ", "1", ";", " ", "}", "\n", "}">>]

FileSh ==
    [path |-> <<"r", "u", "n", ".", "s", "h">>, extension |-> <<".", "s", "h">>, size |-> 54, language |-> "shell",
     content_preview |-> <<"#", "!", "/", "b", "i", "n", "/", "s", "h", "\n", "e", "x", "p", "o", "r", "t", " ", "A", "P", "P", "_", "E", "N", "V", "=", "p", "r", "o", "d", "u", "c", "t", "i", "o", "n", "\n", "e", "c", "h", "o", " ", "s", "t", "a", "r", "t", "i", "n", "g", " ", "a", "p", "p", "\n">>]

FileShort ==
    [path |-> <<"s", "r", "c", "/", "x", ".", "p", "y">>, extension |-> <<".", "p", "y">>, size |-> 5, language |-> "python",
     content_preview |-> <<"x", " ", "=", " ", "1">>]

FileTest ==
    [path |-> <<"t", "e", "s", "t", "s", "/", "t", "e", "s", "t", "_", "a", "p", "p", ".", "p", "y">>, extension |-> <<".", "p", "y">>, size |-> 50,
     language |-> "python",
     content_preview |-> <<"i", "t", "e", "m", "s", " ", "=", " ", "[", "\n", " ", " ", " ", " ", "1", ",", "\n", "]", "\n", "d", "e", "f", " ", "f", "o", "o", "(", ")", ":", "\n", " ", " ", " ", " ", "r", "e", "t", "u", "r", "n", " ", "i", "t", "e", "m", "s", "[", "0", "]", "\n">>]

FileCatalogue == {FilePy, FileJs, FileJava, FileSh, FileShort, FileTest}

\* whole contents the chunking harness may start from
Seeds(language) ==
    {Split(f.content_preview) : f \in {g \in FileCatalogue : g.language = language}}
    \cup (IF language = "python" THEN {Split(ScenarioA)} ELSE {})

HarnessPath == <<"f">>

-----------------------------------------------------------------------------
(* The chunking harness: builds a content line by line and applies one of   *)
(* the chunking functions to it.                                            *)

NotCalled == [op |-> "none", raised |-> FALSE, chunks |-> <<>>]

Called(op, r) == [op |-> op, raised |-> r.raised, chunks |-> r.chunks]

InContent == Join(inLines)

AddLine ==
    /\ out.op = "none"
    /\ Len(inLines) < MaxLines
    /\ \E line \in LinesOf(inLang) : inLines' = Append(inLines, line)
    /\ UNCHANGED <<inLang, out, indexVars, store, searchVars, suspended>>

CallChunkPythonCode ==
    /\ out.op = "none"
    /\ inLang = "python"
    /\ out' = Called("python", ChunkPythonCode(Split(InContent), HarnessPath))
    /\ UNCHANGED <<inLines, inLang, indexVars, store, searchVars, suspended>>

CallChunkJavascriptCode ==
    /\ out.op = "none"
    /\ inLang \in {"javascript", "typescript"}
    /\ out' = Called("javascript", ChunkJavascriptCode(Split(InContent), HarnessPath))
    /\ UNCHANGED <<inLines, inLang, indexVars, store, searchVars, suspended>>

CallChunkJavaCode ==
    /\ out.op = "none"
    /\ inLang = "java"
    /\ out' = Called("java", ChunkJavaCode(Split(InContent), HarnessPath))
    /\ UNCHANGED <<inLines, inLang, indexVars, store, searchVars, suspended>>

CallChunkCodeBySize ==
    /\ out.op = "none"
    /\ inLang \notin {"python", "javascript", "typescript", "java"}
    /\ out' = Called("size", ChunkCodeBySize(InContent, HarnessPath, inLang))
    /\ UNCHANGED <<inLines, inLang, indexVars, store, searchVars, suspended>>

CallChunkFile ==
    /\ out.op = "none"
    /\ out' = Called("file", ChunkFile([path |-> HarnessPath, language |-> inLang,
                                        content_preview |-> InContent]))
    /\ UNCHANGED <<inLines, inLang, indexVars, store, searchVars, suspended>>

\* _chunk_file for a descriptor without a language tag
CallChunkFileUntagged ==
    /\ out.op = "none"
    /\ inLang \notin {"python", "javascript", "typescript", "java"}
    /\ out' = Called("file_untagged",
                     ChunkFile([path |-> HarnessPath, content_preview |-> InContent]))
    /\ UNCHANGED <<inLines, inLang, indexVars, store, searchVars, suspended>>

\* contents for _determine_chunk_type: without a keyword, with a keyword of one
\* list (in lower, upper and mixed case), and with keywords of both lists
TypeContents ==
    {<<"e", "c", "h", "o", " ", "g", "o">>, <<>>, <<"e", "x", "p", "o", "r", "t", " ", "A", "P", "P", "_", "E", "N", "V", "=", "1">>, <<"l", "o", "a", "d", " ", "S", "e", "t", "t", "i", "n", "g", "s">>, <<"c", "o", "n", "f", "i", "g", ".", "y", "a", "m", "l">>,
     <<"r", "u", "n", " ", "t", "e", "s", "t", "s">>, <<"R", "S", "p", "e", "c", ".", "d", "e", "s", "c", "r", "i", "b", "e">>, <<"t", "e", "s", "t", " ", "c", "o", "n", "f", "i", "g">>}

\* _determine_chunk_type applied to a content and the lists of the two extractors
CallDetermineChunkType ==
    /\ out.op = "none"
    /\ inLines = <<>>
    /\ \E content \in TypeContents, functions \in {<<>>, <<<<"f">>>>},
          classes \in {<<>>, <<<<"A">>>>} :
        out' = [op |-> "chunk_type", raised |-> FALSE, chunks |-> <<>>,
                content |-> content, functions |-> functions, classes |-> classes,
                chunk_type |-> DetermineChunkType(content, functions, classes)]
    /\ UNCHANGED <<inLines, inLang, indexVars, store, searchVars, suspended>>
-----------------------------------------------------------------------------
(* _filter_indexable_files                                                  *)

indexable_extensions ==
    {<<".", "p", "y">>, <<".", "j", "s">>, <<".", "j", "s", "x">>, <<".", "t", "s">>, <<".", "t", "s", "x">>, <<".", "j", "a", "v", "a">>, <<".", "g", "o">>, <<".", "r", "s">>,
     <<".", "c", "p", "p">>, <<".", "c">>, <<".", "h">>, <<".", "h", "p", "p">>, <<".", "c", "s">>, <<".", "p", "h", "p">>, <<".", "r", "b">>, <<".", "s", "w", "i", "f", "t">>,
     <<".", "k", "t">>, <<".", "s", "c", "a", "l", "a">>, <<".", "s", "q", "l">>, <<".", "h", "t", "m", "l">>, <<".", "c", "s", "s">>, <<".", "s", "c", "s", "s">>, <<".", "l", "e", "s", "s">>,
     <<".", "j", "s", "o", "n">>, <<".", "y", "a", "m", "l">>, <<".", "y", "m", "l">>, <<".", "x", "m", "l">>, <<".", "s", "h">>, <<".", "b", "a", "s", "h">>, <<".", "z", "s", "h">>}

exclude_patterns ==
    {<<"t", "e", "s", "t">>, <<"s", "p", "e", "c">>, <<"m", "o", "c", "k">>, <<"f", "i", "x", "t", "u", "r", "e">>, <<"n", "o", "d", "e", "_", "m", "o", "d", "u", "l", "e", "s">>, <<"_", "_", "p", "y", "c", "a", "c", "h", "e", "_", "_">>,
     <<".", "g", "i", "t">>, <<"d", "i", "s", "t">>, <<"b", "u", "i", "l", "d">>, <<"t", "a", "r", "g", "e", "t">>, <<"c", "o", "v", "e", "r", "a", "g", "e">>, <<".", "v", "s", "c", "o", "d", "e">>, <<".", "i", "d", "e", "a">>}

max_file_size == 1024 * 1024

MaxFiles == 2

\* fault variant of Indexable: a file of exactly the size ceiling is skipped
IndexableBelowCeiling(file_info) ==
    /\ ToLower(Get(file_info, "extension", <<>>)) \in indexable_extensions
    /\ ~\E pattern \in exclude_patterns : Contains(ToLower(file_info.path), pattern)
    /\ Get(file_info, "size", 0) < max_file_size

\* the three checks of the loop body; a file that passes them is appended
Indexable(file_info) ==
    /\ ToLower(Get(file_info, "extension", <<>>)) \in indexable_extensions
    /\ ~\E pattern \in exclude_patterns : Contains(ToLower(file_info.path), pattern)
    /\ Get(file_info, "size", 0) <= max_file_size

FilterIndexableFiles(fs) == SelectSeq(fs, Indexable)

\* descriptors for the filter: kept ones (one with an upper-case path and extension,
\* one of exactly 1 MiB, one without a size), and ones that fail one check each
FilterCatalogue ==
    {[path |-> <<"s", "r", "c", "/", "a", "p", "p", ".", "p", "y">>, extension |-> <<".", "p", "y">>, size |-> 10],
     [path |-> <<"S", "R", "C", "/", "M", "a", "i", "n", ".", "P", "Y">>, extension |-> <<".", "P", "Y">>, size |-> 10],
     [path |-> <<"d", "b", "/", "b", "i", "g", ".", "s", "q", "l">>, extension |-> <<".", "s", "q", "l">>, size |-> 1048576],
     [path |-> <<"s", "r", "c", "/", "c", "l", "i", ".", "p", "y">>, extension |-> <<".", "p", "y">>],
     [path |-> <<"d", "b", "/", "h", "u", "g", "e", ".", "s", "q", "l">>, extension |-> <<".", "s", "q", "l">>, size |-> 1048577],
     [path |-> <<"s", "r", "c", "/", "l", "a", "t", "e", "s", "t", "/", "a", "p", "p", ".", "p", "y">>, extension |-> <<".", "p", "y">>, size |-> 10],
     [path |-> <<"B", "u", "i", "l", "d", "/", "a", "p", "p", ".", "p", "y">>, extension |-> <<".", "p", "y">>, size |-> 10],
     [path |-> <<"R", "E", "A", "D", "M", "E", ".", "m", "d">>, extension |-> <<".", "m", "d">>, size |-> 10],
     [path |-> <<"M", "a", "k", "e", "f", "i", "l", "e">>, size |-> 10]}

\* the filter harness: a file list is built and _filter_indexable_files applied to it
AddFile ==
    /\ pc = "idle"
    /\ Len(files) < MaxFiles
    /\ \E file_info \in FilterCatalogue : files' = Append(files, file_info)
    /\ UNCHANGED <<repository_id, pc, indexable_files, fileIdx, chunks, chunkIdx, embedding,
                   chunks_created, embeddings_generated, summary, log, store, chunkVars,
                   searchVars, suspended>>

CallFilterIndexableFiles ==
    /\ pc = "idle"
    /\ indexable_files' = FilterIndexableFiles(files)
    /\ pc' = "filtered"
    /\ UNCHANGED <<files, repository_id, fileIdx, chunks, chunkIdx, embedding,
                   chunks_created, embeddings_generated, summary, log, store, chunkVars,
                   searchVars, suspended>>

-----------------------------------------------------------------------------
(* The embedding provider and the code_chunks table.                        *)

\* Embedding vectors.  The provider's vectors have 1536 components; the model's
\* have three, non-negative, so that every cosine is in [0, 1].
Embeddings == {<<1, 1, 0>>, <<1, 0, 1>>, <<1, 1, 1>>}

\* the vector the provider returns during an indexing run of the model
IndexVectors == {<<1, 1, 0>>}

Repositories == {"r1", "r2"}

\* what the provider call of _generate_embedding can do: fail (no client configured,
\* tokenizer or provider error) or return a vector
EmbedFails == [ok |-> FALSE, vec |-> <<>>]

EmbedOutcomes(vectors) == {EmbedFails} \cup {[ok |-> TRUE, vec |-> v] : v \in vectors}

\* fault variant of GenerateEmbedding: _generate_embedding without its try/except,
\* so that a failed tokenizer or provider call raises into the caller
GenerateEmbeddingNoCatch(outcome) ==
    [raised |-> ~outcome.ok, embedding |-> IF outcome.ok THEN outcome.vec ELSE <<>>]

\* _generate_embedding: None (here the empty sequence, falsy like None) when there
\* is no client or the try block raised, else response.data[0].embedding
GenerateEmbedding(outcome) ==
    [raised |-> FALSE, embedding |-> IF outcome.ok THEN outcome.vec ELSE <<>>]

\* the row the INSERT of _store_chunk writes
Row(repo, chunk, emb) ==
    [repository_id |-> repo,
     file_path     |-> chunk.file_path,
     content       |-> chunk.content,
     start_line    |-> chunk.start_line,
     end_line      |-> chunk.end_line,
     language      |-> chunk.language,
     functions     |-> chunk.functions,
     embedding     |-> emb]

\* fault variant of StoreChunk: _store_chunk without its try/except, so that a
\* failed insert raises into index_repository
StoreChunkNoCatch(table, repo, chunk, emb, db_ok) ==
    [raised |-> ~db_ok,
     store  |-> IF db_ok THEN Append(table, Row(repo, chunk, emb)) ELSE table]

\* the rows of table of another repository, file or start line than chunk
RowsBesides(table, repo, chunk) ==
    SelectSeq(table, LAMBDA row : \/ row.repository_id # repo
                                  \/ row.file_path # chunk.file_path
                                  \/ row.start_line # chunk.start_line)

\* fault variant of StoreChunk: an insert that replaces the row of the same
\* repository, file and start line
StoreChunkReplacing(table, repo, chunk, emb, db_ok) ==
    [raised |-> FALSE,
     store  |-> IF db_ok
                THEN Append(RowsBesides(table, repo, chunk), Row(repo, chunk, emb))
                ELSE table]

\* _store_chunk: the row is persisted when execute and commit succeed (db_ok); an
\* exception is printed and not raised
StoreChunk(table, repo, chunk, emb, db_ok) ==
    [raised |-> FALSE,
     store  |-> IF db_ok THEN Append(table, Row(repo, chunk, emb)) ELSE table]

-----------------------------------------------------------------------------
(* index_repository(repository_id, file_tree)                               *)


Event(op, file, chunk, ok, n) == [op |-> op, file |-> file, chunk |-> chunk, ok |-> ok, n |-> n]

\* the loop over the files goes on with the next file
NextFile ==
    /\ fileIdx' = fileIdx + 1
    /\ chunks' = <<>>
    /\ chunkIdx' = 0
    /\ embedding' = <<>>
    /\ pc' = "files"

\* except Exception as e: print(...), and the loop goes on
ExceptHandler ==
    /\ NextFile
    /\ UNCHANGED chunks_created

\* fault variant of NextChunkOfFile: the chunks of a file are not added to
\* chunks_created after its last chunk
NextChunkOfFileNotCounting ==
    IF chunkIdx < Len(chunks)
    THEN /\ chunkIdx' = chunkIdx + 1
         /\ embedding' = <<>>
         /\ pc' = "embed"
         /\ UNCHANGED <<fileIdx, chunks, chunks_created>>
    ELSE /\ UNCHANGED chunks_created
         /\ NextFile

\* the loop over the chunks goes on; after the last chunk,
\* chunks_created += len(chunks) and the loop over the files goes on
NextChunkOfFile ==
    IF chunkIdx < Len(chunks)
    THEN /\ chunkIdx' = chunkIdx + 1
         /\ embedding' = <<>>
         /\ pc' = "embed"
         /\ UNCHANGED <<fileIdx, chunks, chunks_created>>
    ELSE /\ chunks_created' = chunks_created + Len(chunks)
         /\ NextFile

\* files = file_tree.get('files', []); the counters; _filter_indexable_files
IndexBegin ==
    /\ pc = "start"
    /\ indexable_files' = FilterIndexableFiles(files)
    /\ fileIdx' = 1
    /\ chunks_created' = 0
    /\ embeddings_generated' = 0
    /\ pc' = "files"
    /\ UNCHANGED <<files, repository_id, chunks, chunkIdx, embedding, summary, log,
                   store, chunkVars, searchVars, suspended>>

\* what follows chunks = await self._chunk_file(file_info), which returned or raised r
AfterChunkFile(r) ==
    /\ log' = Append(log, Event("chunk_file", fileIdx, 0, ~r.raised, Len(r.chunks)))
    /\ IF r.raised THEN ExceptHandler
       ELSE IF r.chunks = <<>>
       THEN /\ chunks_created' = chunks_created + 0
            /\ NextFile
       ELSE /\ chunks' = r.chunks
            /\ chunkIdx' = 1
            /\ embedding' = <<>>
            /\ pc' = "embed"
            /\ UNCHANGED <<fileIdx, chunks_created>>

\* _chunk_file of every file of the catalogue
ChunkFileOf == [f \in FileCatalogue |-> ChunkFile(f)]

\* chunks = await self._chunk_file(file_info), inside the try
IndexChunkFile ==
    /\ pc = "files"
    /\ fileIdx <= Len(indexable_files)
    /\ AfterChunkFile(ChunkFileOf[indexable_files[fileIdx]])
    /\ UNCHANGED <<files, repository_id, indexable_files, embeddings_generated, summary,
                   store, chunkVars, searchVars, suspended>>

\* embedding = await self._generate_embedding(chunk.content); if embedding: ...
IndexEmbed ==
    /\ pc = "embed"
    /\ \E outcome \in EmbedOutcomes(IndexVectors) :
        LET r == GenerateEmbedding(outcome)
        IN  /\ log' = Append(log, Event("embed", fileIdx, chunkIdx,
                                        ~r.raised /\ r.embedding # <<>>, 0))
            /\ IF r.raised THEN ExceptHandler
               ELSE IF r.embedding # <<>>
               THEN /\ embedding' = r.embedding
                    /\ pc' = "store"
                    /\ UNCHANGED <<fileIdx, chunks, chunkIdx, chunks_created>>
               ELSE NextChunkOfFile
    /\ UNCHANGED <<files, repository_id, indexable_files, embeddings_generated, summary,
                   store, chunkVars, searchVars, suspended>>

\* await self._store_chunk(repository_id, chunk, embedding); embeddings_generated += 1
IndexStore ==
    /\ pc = "store"
    /\ \E db_ok \in BOOLEAN :
        LET r == StoreChunk(store, repository_id, chunks[chunkIdx], embedding, db_ok)
        IN  /\ store' = r.store
            /\ log' = Append(log, Event("store", fileIdx, chunkIdx,
                                        Len(r.store) > Len(store), 0))
            /\ IF r.raised
               THEN /\ ExceptHandler
                    /\ UNCHANGED embeddings_generated
               ELSE /\ embeddings_generated' = embeddings_generated + 1
                    /\ NextChunkOfFile
    /\ UNCHANGED <<files, repository_id, indexable_files, summary, chunkVars, searchVars, suspended>>

\* the return after the loop
IndexReturn ==
    /\ pc = "files"
    /\ fileIdx > Len(indexable_files)
    /\ summary' = [repository_id        |-> repository_id,
                   files_processed      |-> Len(indexable_files),
                   chunks_created       |-> chunks_created,
                   embeddings_generated |-> embeddings_generated]
    /\ pc' = "done"
    /\ UNCHANGED <<files, repository_id, indexable_files, fileIdx, chunks, chunkIdx,
                   embedding, chunks_created, embeddings_generated, log, store,
                   chunkVars, searchVars, suspended>>

-----------------------------------------------------------------------------
(* search_similar_code: the SQL query over code_chunks.                     *)

MaxRows == 2
MaxLimit == 2

\* similarity_threshold as <<numerator, denominator>>; 0.7 is the default
Thresholds == {<<1, 2>>, <<7, 10>>, <<9, 10>>}

\* repository_ids: None (given = FALSE) or a list of repository ids
RepositoryFilters ==
    {[given |-> FALSE, ids |-> <<>>], [given |-> TRUE, ids |-> <<>>],
     [given |-> TRUE, ids |-> <<"r1">>], [given |-> TRUE, ids |-> <<"r1", "r2">>]}

Dot(a, b) == a[1] * b[1] + a[2] * b[2] + a[3] * b[3]

\* 1 - (embedding <=> :query_vector), the cosine of the two vectors.  No component
\* is negative, so the cosine is kept as its square, the fraction num/den, which
\* orders the rows as the cosine does.
Similarity(e, q) == [num |-> Dot(e, q) * Dot(e, q), den |-> Dot(e, e) * Dot(q, q)]

\* score a < score b
ScoreLess(a, b) == a.num * b.den < b.num * a.den

\* fault variant of AboveThreshold: >= in place of >
AtOrAboveThreshold(score, threshold) ==
    score.num * threshold[2] * threshold[2] >= threshold[1] * threshold[1] * score.den

\* 1 - (embedding <=> :query_vector) > :similarity_threshold
AboveThreshold(score, threshold) ==
    score.num * threshold[2] * threshold[2] > threshold[1] * threshold[1] * score.den

\* fault variant of RepositoryMatches: the WHERE clause without the repository test
RepositoryMatchesAny(filter, repo) == TRUE

\* :repository_ids IS NULL OR repository_id = ANY(:repository_ids)
RepositoryMatches(filter, repo) ==
    ~filter.given \/ \E i \in 1..Len(filter.ids) : filter.ids[i] = repo

\* the WHERE clause for one row
Qualifies(row, q) ==
    /\ RepositoryMatches([given |-> q.given, ids |-> q.repository_ids], row.repository_id)
    /\ AboveThreshold(Similarity(row.embedding, q.query_embedding), q.similarity_threshold)

\* the rows (their positions in the table) the WHERE clause selects
Qualifying(table, q) == {i \in 1..Len(table) : Qualifies(table[i], q)}

\* the orders in which the elements of the set S can be listed
Orderings(S) ==
    {p \in [1..Cardinality(S) -> S] : \A i, j \in 1..Cardinality(S) : i # j => p[i] # p[j]}

\* fault variant of OrderBy: the query without its ORDER BY clause
OrderByNothing(rows, table, qv) == Orderings(rows)

\* ORDER BY similarity_score DESC: SQL fixes no order among rows of equal score, so
\* every listing in which no row precedes a row of higher score is a possible result
OrderBy(rows, table, qv) ==
    {p \in Orderings(rows) :
        \A i, j \in 1..Len(p) :
            i < j => ~ScoreLess(Similarity(table[p[i]].embedding, qv),
                                Similarity(table[p[j]].embedding, qv))}

\* LIMIT :limit
Limit(order, limit) == SubSeq(order, 1, Min(limit, Len(order)))

\* SearchResult(...) for the row at position i of the table; row records which row
SearchResult(table, i, qv) ==
    [row              |-> i,
     file_path        |-> table[i].file_path,
     content          |-> table[i].content,
     similarity_score |-> Similarity(table[i].embedding, qv),
     language         |-> table[i].language]

\* search_results for the fetched rows
SearchResults(table, order, qv) ==
    [k \in 1..Len(order) |-> SearchResult(table, order[k], qv)]

\* the try block of search_similar_code for the call q: what it returns (rows) or
\* that it raised, and queries, the number of statements it sent to the database.
\* Without a query embedding it returns [] before the session is opened.
SearchSimilarCodeTry(table, q) ==
    IF q.query_embedding = <<>>
    THEN {[raised |-> FALSE, queries |-> 0, target |-> 0, rows |-> <<>>]}
    ELSE IF ~q.db_ok
    THEN {[raised |-> TRUE, queries |-> 1, target |-> 0, rows |-> <<>>]}
    ELSE {[raised |-> FALSE, queries |-> 1, target |-> 0,
           rows |-> SearchResults(table, Limit(order, q.limit), q.query_embedding)] :
            order \in OrderBy(Qualifying(table, q), table, q.query_embedding)}

\* fault variant of Except: the function without its except clause
ExceptReraise(r) == r

\* except Exception as e: print(...); return []
Except(r) == IF r.raised THEN [r EXCEPT !.raised = FALSE, !.rows = <<>>] ELSE r

\* what search_similar_code can do for the call q
SearchSimilarCode(table, q) == {Except(r) : r \in SearchSimilarCodeTry(table, q)}

\* chunks of two files, as _chunk_file makes them, for the rows of the table
SampleChunks == {ChunkFile(FilePy).chunks[1], ChunkFile(FileJs).chunks[1]}

\* a row is stored, as index_repository does through _store_chunk
StoreInsert ==
    /\ query.op = "none"
    /\ Len(store) < MaxRows
    /\ \E repo \in Repositories, chunk \in SampleChunks, emb \in Embeddings :
        store' = StoreChunk(store, repo, chunk, emb, TRUE).store
    /\ UNCHANGED <<chunkVars, indexVars, searchVars, suspended>>

\* the caller receives what the call r did
Returns(r) ==
    /\ results' = r.rows
    /\ reply' = [raised |-> r.raised, queries |-> r.queries, target |-> r.target]

\* the call search_similar_code(query, repository_ids, limit, similarity_threshold);
\* outcome is what the provider did for the query text, db_ok whether the database
\* executed the query
CallSearchSimilarCode ==
    /\ query.op = "none"
    /\ \E outcome \in EmbedOutcomes(Embeddings), filter \in RepositoryFilters,
          limit \in 0..MaxLimit, threshold \in Thresholds, db_ok \in BOOLEAN :
        /\ query' = [op                   |-> "search",
                     query_embedding      |-> GenerateEmbedding(outcome).embedding,
                     given                |-> filter.given,
                     repository_ids       |-> filter.ids,
                     limit                |-> limit,
                     similarity_threshold |-> threshold,
                     db_ok                |-> db_ok]
        /\ \E r \in SearchSimilarCode(store, query') : Returns(r)
    /\ UNCHANGED <<chunkVars, indexVars, store, suspended>>

-----------------------------------------------------------------------------
(* find_related_files: the two SQL queries over code_chunks.                *)

MaxRelatedRows == 3

\* the file_path arguments: the files of the sample chunks, and the path of
\* Scenario C, which no row has
RelatedPaths == {FilePy.path, FileJs.path, <<"n", "o", "_", "s", "u", "c", "h", "_", "f", "i", "l", "e", ".", "p", "y">>}

\* where the database fails during the call: nowhere, at the first statement (or
\* when the session is opened), or after the target row is fetched (the second
\* statement, or target_row.embedding / .tolist() on what the driver returned)
RelatedFailures == {"none", "target", "similar"}

\* fault variant of TargetRows: the first query without its WHERE clause
TargetRowsAny(table, file_path) == 1..Len(table)

\* SELECT embedding FROM code_chunks WHERE file_path = :file_path
TargetRows(table, file_path) == {i \in 1..Len(table) : table[i].file_path = file_path}

\* fault variant of OtherFiles: the second query without its WHERE clause
OtherFilesAll(table, file_path) == 1..Len(table)

\* WHERE file_path != :file_path
OtherFiles(table, file_path) == {i \in 1..Len(table) : table[i].file_path # file_path}

\* the dict made for the row at position i of the table; row records which row
RelatedFile(table, i, target_embedding) ==
    [row              |-> i,
     file_path        |-> table[i].file_path,
     language         |-> table[i].language,
     similarity_score |-> Similarity(table[i].embedding, target_embedding)]

\* the list comprehension over similar_rows
RelatedFiles(table, order, target_embedding) ==
    [k \in 1..Len(order) |-> RelatedFile(table, order[k], target_embedding)]

\* the second query for the target row t: ORDER BY similarity_score DESC LIMIT :limit
SimilarQuery(table, q, t) ==
    {[raised |-> FALSE, queries |-> 2, target |-> t,
      rows |-> RelatedFiles(table, Limit(order, q.limit), table[t].embedding)] :
        order \in OrderBy(OtherFiles(table, q.file_path), table, table[t].embedding)}

\* what follows the first query, which selected the rows targets: LIMIT 1 without
\* ORDER BY lets fetchone() return any of them, and None when there is none
AfterTargetQuery(table, q, targets) ==
    IF targets = {}
    THEN {[raised |-> FALSE, queries |-> 1, target |-> 0, rows |-> <<>>]}
    ELSE IF q.db_fail = "similar"
    THEN {[raised |-> TRUE, queries |-> 2, target |-> t, rows |-> <<>>] : t \in targets}
    ELSE UNION {SimilarQuery(table, q, t) : t \in targets}

\* the try block of find_related_files for the call q
FindRelatedFilesTry(table, q) ==
    IF q.db_fail = "target"
    THEN {[raised |-> TRUE, queries |-> 1, target |-> 0, rows |-> <<>>]}
    ELSE AfterTargetQuery(table, q, TargetRows(table, q.file_path))

\* what find_related_files can do for the call q
FindRelatedFiles(table, q) == {Except(r) : r \in FindRelatedFilesTry(table, q)}

\* the call find_related_files(file_path, limit)
CallFindRelatedFiles ==
    /\ query.op = "none"
    /\ \E file_path \in RelatedPaths, limit \in 0..MaxLimit, db_fail \in RelatedFailures :
        /\ query' = [op |-> "related", file_path |-> file_path, limit |-> limit,
                     db_fail |-> db_fail]
        /\ \E r \in FindRelatedFiles(store, query') : Returns(r)
    /\ UNCHANGED <<chunkVars, indexVars, store, suspended>>

\* a row is stored, as index_repository does through _store_chunk; find_related_files
\* does not look at the repository of a row
RelatedInsert ==
    /\ query.op = "none"
    /\ Len(store) < MaxRelatedRows
    /\ \E chunk \in SampleChunks, emb \in Embeddings :
        store' = StoreChunk(store, "r1", chunk, emb, TRUE).store
    /\ UNCHANGED <<chunkVars, indexVars, searchVars, suspended>>

-----------------------------------------------------------------------------
(* _generate_embedding: the text handed to the provider.                    *)

max_tokens == 8191

Letter == Lower \cup Upper

\* A special token of the tokenizer's encoding; encode() raises ValueError on a text
\* that contains one.
EndOfText == <<"<", "|", "e", "n", "d", "o", "f", "t", "e", "x", "t", "|", ">">>

DisallowedSpecial(text) == Contains(text, EndOfText)

\* The tokenizer's vocabulary is not reproduced.  A token of the model is a piece of
\* the encoding's split pattern: a run of letters together with one space before it,
\* or any other single character.  A token begins at position i of text:
TokenStart(text, i) ==
    \/ i = 1
    \/ text[i] \notin Letter
    \/ text[i - 1] \notin Letter \cup {" "}

\* the positions where the tokens of text begin, ascending
TokenStarts(text) == SelectSeq([i \in 1..Len(text) |-> i], LAMBDA i : TokenStart(text, i))

\* the tokens of text that begin at starts
TokensAt(text, starts) ==
    [k \in 1..Len(starts) |->
        SubSeq(text, starts[k], IF k < Len(starts) THEN starts[k + 1] - 1 ELSE Len(text))]

\* self.tokenizer.encode(text), for a text without special token
TokenizerEncode(text) == TokensAt(text, TokenStarts(text))

\* the concatenation of tokens[lo..hi]
RECURSIVE Concat(_, _, _)
Concat(tokens, lo, hi) ==
    IF lo > hi THEN <<>>
    ELSE IF lo = hi THEN tokens[lo]
    ELSE Concat(tokens, lo, (lo + hi) \div 2) \o Concat(tokens, (lo + hi) \div 2 + 1, hi)

\* self.tokenizer.decode(tokens)
TokenizerDecode(tokens) == Concat(tokens, 1, Len(tokens))

\* fault variant of InputText: a cut after max_tokens characters
InputTextCutAtCharacters(text, tokens) ==
    IF Len(tokens) > max_tokens THEN SubSeq(text, 1, max_tokens) ELSE text

\* the text after the token check: decode(encode(text)[:max_tokens]) when
\* len(encode(text)) > max_tokens, else text
InputText(text, tokens) ==
    IF Len(tokens) > max_tokens
    THEN TokenizerDecode(SubSeq(tokens, 1, max_tokens))
    ELSE text

NoRequest == [requested |-> FALSE, input |-> <<>>, embedding |-> <<>>]

\* _generate_embedding(text) of a service with or without client, the provider
\* answering with outcome: whether embeddings.create was called, its input, and the
\* value returned
GenerateEmbeddingOf(client, text, outcome) ==
    IF ~client THEN NoRequest
    ELSE IF DisallowedSpecial(text) THEN NoRequest
    ELSE [requested |-> TRUE,
          input     |-> InputText(text, TokenizerEncode(text)),
          embedding |-> GenerateEmbedding(outcome).embedding]

MaxTextLines == 3

\* a line of max_tokens - 1 one-character tokens
LongTokenLine == [i \in 1..(max_tokens - 1) |-> IF i % 2 = 1 THEN "x" ELSE "="]

\* lines of the texts handed to _generate_embedding: with the newline between two
\* lines, texts of fewer than, exactly and more than max_tokens tokens
EmbedLines == {LongTokenLine, <<>>, <<"y">>, <<"a", "b", " ", "c", "d">>, EndOfText}

AddTextLine ==
    /\ out.op = "none"
    /\ inLang = ""
    /\ Len(inLines) < MaxTextLines
    /\ \E line \in EmbedLines : inLines' = Append(inLines, line)
    /\ UNCHANGED <<inLang, out, indexVars, store, searchVars, suspended>>

Embedded(client, r) ==
    [op |-> "generate_embedding", raised |-> FALSE, chunks |-> <<>>, client |-> client,
     requested |-> r.requested, input |-> r.input, embedding |-> r.embedding]

\* _generate_embedding applied to the text of the harness
CallGenerateEmbedding ==
    /\ out.op = "none"
    /\ inLang = ""
    /\ \E client \in BOOLEAN, outcome \in EmbedOutcomes(IndexVectors) :
        out' = Embedded(client, GenerateEmbeddingOf(client, InContent, outcome))
    /\ UNCHANGED <<inLines, inLang, indexVars, store, searchVars, suspended>>

-----------------------------------------------------------------------------
(* index_repository run as a task that its caller cancels.                  *)

\* index_repository reads no cancellation flag.  What a caller has is the task of
\* the coroutine: Task.cancel() asks the event loop to throw CancelledError into the
\* coroutine where it is suspended.  The request is kept in the history.
CancelRequested == \E i \in 1..Len(log) : log[i].op = "cancel"

RequestCancel ==
    /\ pc \in {"files", "embed", "store"}
    /\ ~CancelRequested
    /\ log' = Append(log, Event("cancel", fileIdx, chunkIdx, TRUE, 0))
    /\ UNCHANGED <<files, repository_id, pc, indexable_files, fileIdx, chunks, chunkIdx,
                   embedding, chunks_created, embeddings_generated, summary, store,
                   chunkVars, searchVars, suspended>>

\* The coroutine is suspended in embeddings.create or in the session of _store_chunk
\* when the request is delivered: CancelledError is no Exception, the handlers of
\* l.88, l.576 and l.617 let it pass, and the run ends without a summary.
IndexCancelled ==
    /\ pc \in {"embed", "store"}
    /\ CancelRequested
    /\ pc' = "cancelled"
    /\ UNCHANGED <<files, repository_id, indexable_files, fileIdx, chunks, chunkIdx,
                   embedding, chunks_created, embeddings_generated, summary, log, store,
                   chunkVars, searchVars, suspended>>

\* _generate_embedding once cancellation is requested: only a call that returns None
\* without suspending (no client, l.560; the tokenizer raising, l.564) is not the
\* place where the request is delivered
IndexEmbedOfTask ==
    /\ IndexEmbed
    /\ CancelRequested => pc' # "store"

\* _store_chunk suspends on the database; it completes when no request is pending
IndexStoreOfTask ==
    /\ ~CancelRequested
    /\ IndexStore

-----------------------------------------------------------------------------
(* Two index_repository coroutines of one service on one event loop.        *)

NoSummary ==
    [repository_id |-> "", files_processed |-> 0, chunks_created |-> 0,
     embeddings_generated |-> 0]

\* no second coroutine
NoFrame ==
    [files |-> <<>>, repository_id |-> "", pc |-> "idle", indexable_files |-> <<>>,
     fileIdx |-> 0, chunks |-> <<>>, chunkIdx |-> 0, embedding |-> <<>>,
     chunks_created |-> 0, embeddings_generated |-> 0, summary |-> NoSummary,
     log |-> <<>>]

\* The frame of the running coroutine: its arguments and locals (l.66-68, l.71, the
\* two loops) and its history.  The service instance holds nothing a run writes.
Frame ==
    [files |-> files, repository_id |-> repository_id, pc |-> pc,
     indexable_files |-> indexable_files, fileIdx |-> fileIdx, chunks |-> chunks,
     chunkIdx |-> chunkIdx, embedding |-> embedding, chunks_created |-> chunks_created,
     embeddings_generated |-> embeddings_generated, summary |-> summary, log |-> log]

\* fault variant of Resume: the two counters kept on the service instance, shared by
\* the coroutines, instead of in the frame
ResumeSharingCounters(f) ==
    /\ files' = f.files
    /\ repository_id' = f.repository_id
    /\ pc' = f.pc
    /\ indexable_files' = f.indexable_files
    /\ fileIdx' = f.fileIdx
    /\ chunks' = f.chunks
    /\ chunkIdx' = f.chunkIdx
    /\ embedding' = f.embedding
    /\ UNCHANGED <<chunks_created, embeddings_generated>>
    /\ summary' = f.summary
    /\ log' = f.log

\* the coroutine of frame f runs on
Resume(f) ==
    /\ files' = f.files
    /\ repository_id' = f.repository_id
    /\ pc' = f.pc
    /\ indexable_files' = f.indexable_files
    /\ fileIdx' = f.fileIdx
    /\ chunks' = f.chunks
    /\ chunkIdx' = f.chunkIdx
    /\ embedding' = f.embedding
    /\ chunks_created' = f.chunks_created
    /\ embeddings_generated' = f.embeddings_generated
    /\ summary' = f.summary
    /\ log' = f.log

\* where a coroutine leaves the event loop to the other one: before its first step,
\* suspended in _generate_embedding or _store_chunk, and after its return
AwaitPoints == {"start", "embed", "store", "done"}

\* the event loop runs the other coroutine
Switch ==
    /\ pc \in AwaitPoints
    /\ suspended.pc \notin {"idle", "done"}
    /\ suspended' = Frame
    /\ Resume(suspended)
    /\ UNCHANGED <<store, chunkVars, searchVars>>

\* the frame of a call index_repository(repo, {'files': tree}) not yet started
Started(repo, tree) ==
    [NoFrame EXCEPT !.files = tree, !.repository_id = repo, !.pc = "start"]

\* file trees of the concurrent calls: a file whose chunking raises before a file of
\* two chunks, and a file of one chunk
ConcurrentTrees == {<<FileJava, FilePy>>, <<FileSh>>}

\* index_repository is called again once the first call has returned
IndexAgain ==
    /\ pc = "done"
    /\ Switch

\* file trees indexed twice: a file of two chunks, a file of one chunk
ReindexTrees == {<<FilePy>>, <<FileSh>>}

-----------------------------------------------------------------------------
(* Specifications.                                                          *)

IndexIdle ==
    /\ files = <<>>
    /\ repository_id = ""
    /\ pc = "idle"
    /\ indexable_files = <<>>
    /\ fileIdx = 0
    /\ chunks = <<>>
    /\ chunkIdx = 0
    /\ embedding = <<>>
    /\ chunks_created = 0
    /\ embeddings_generated = 0
    /\ summary = NoSummary
    /\ log = <<>>

NoQuery ==
    [op |-> "none", query_embedding |-> <<>>, given |-> FALSE, repository_ids |-> <<>>,
     limit |-> 0, similarity_threshold |-> <<7, 10>>, db_ok |-> TRUE]

NoReply == [raised |-> FALSE, queries |-> 0, target |-> 0]

SearchIdle ==
    /\ query = NoQuery
    /\ results = <<>>
    /\ reply = NoReply

ChunkIdle ==
    /\ inLines = <<>>
    /\ inLang = ""
    /\ out = NotCalled

RECURSIVE SeqsUpTo(_, _)
\* the sequences over S of length at most n
SeqsUpTo(S, n) ==
    IF n = 0 THEN {<<>>}
    ELSE {<<>>} \cup {Append(s, x) : s \in SeqsUpTo(S, n - 1), x \in S}

\* the chunking functions applied to contents of up to MaxLines catalogue lines
InitChunk ==
    /\ inLang \in Languages
    /\ inLines \in {<<>>} \cup Seeds(inLang)
    /\ out = NotCalled
    /\ IndexIdle
    /\ store = <<>>
    /\ SearchIdle
    /\ suspended = NoFrame

NextChunking ==
    \/ AddLine
    \/ CallChunkPythonCode
    \/ CallChunkJavascriptCode
    \/ CallChunkJavaCode
    \/ CallChunkCodeBySize
    \/ CallChunkFile
    \/ CallChunkFileUntagged
    \/ CallDetermineChunkType

SpecChunk == InitChunk /\ [][NextChunking]_vars

\* one call of index_repository on a file tree of up to MaxFiles catalogue files
InitIndex ==
    /\ files \in SeqsUpTo(FileCatalogue, MaxFiles)
    /\ repository_id \in Repositories
    /\ pc = "start"
    /\ indexable_files = <<>>
    /\ fileIdx = 0
    /\ chunks = <<>>
    /\ chunkIdx = 0
    /\ embedding = <<>>
    /\ chunks_created = 0
    /\ embeddings_generated = 0
    /\ summary = NoSummary
    /\ log = <<>>
    /\ store = <<>>
    /\ ChunkIdle
    /\ SearchIdle
    /\ suspended = NoFrame

NextIndex ==
    \/ IndexBegin
    \/ IndexChunkFile
    \/ IndexEmbed
    \/ IndexStore
    \/ IndexReturn

SpecIndex == InitIndex /\ [][NextIndex]_vars

\* one call of search_similar_code on a table of up to MaxRows rows
InitSearch ==
    /\ ChunkIdle
    /\ IndexIdle
    /\ store = <<>>
    /\ SearchIdle
    /\ suspended = NoFrame

NextSearch ==
    \/ StoreInsert
    \/ CallSearchSimilarCode
    \/ CallFindRelatedFiles

SpecSearch == InitSearch /\ [][NextSearch]_vars

\* _filter_indexable_files applied to lists of up to MaxFiles catalogue descriptors
InitFilter == InitSearch

NextFilter ==
    \/ AddFile
    \/ CallFilterIndexableFiles

SpecFilter == InitFilter /\ [][NextFilter]_vars

\* one call of find_related_files on a table of up to MaxRelatedRows rows
InitRelated == InitSearch

NextRelated ==
    \/ RelatedInsert
    \/ CallFindRelatedFiles

SpecRelated == InitRelated /\ [][NextRelated]_vars

\* _generate_embedding applied to texts of up to MaxTextLines lines
InitEmbed == InitSearch

NextEmbed ==
    \/ AddTextLine
    \/ CallGenerateEmbedding

SpecEmbed == InitEmbed /\ [][NextEmbed]_vars

\* one call of index_repository, run as a task that may be cancelled once
InitTask == InitIndex

NextTask ==
    \/ IndexBegin
    \/ IndexChunkFile
    \/ IndexEmbedOfTask
    \/ IndexStoreOfTask
    \/ IndexReturn
    \/ RequestCancel
    \/ IndexCancelled

SpecTask == InitTask /\ [][NextTask]_vars

\* index_repository with its scheduling: the steps of the coroutine itself are taken
\* when they can be; the awaited provider call (IndexEmbed) and database call
\* (IndexStore) have no timeout in the code and resume only when the other side
\* answers or fails, which nothing guarantees
SpecAwait ==
    /\ InitIndex
    /\ [][NextIndex]_vars
    /\ WF_vars(IndexBegin)
    /\ WF_vars(IndexChunkFile)
    /\ WF_vars(IndexReturn)

\* two calls of index_repository on one service, interleaved at their await points
InitConcurrent ==
    /\ ChunkIdle
    /\ SearchIdle
    /\ store = <<>>
    /\ files \in ConcurrentTrees
    /\ repository_id = "r1"
    /\ pc = "start"
    /\ indexable_files = <<>>
    /\ fileIdx = 0
    /\ chunks = <<>>
    /\ chunkIdx = 0
    /\ embedding = <<>>
    /\ chunks_created = 0
    /\ embeddings_generated = 0
    /\ summary = NoSummary
    /\ log = <<>>
    /\ suspended \in {Started(repo, tree) : repo \in Repositories, tree \in ConcurrentTrees}

NextConcurrent ==
    \/ IndexBegin
    \/ IndexChunkFile
    \/ IndexEmbed
    \/ IndexStore
    \/ IndexReturn
    \/ Switch

SpecConcurrent == InitConcurrent /\ [][NextConcurrent]_vars

\* index_repository called twice, one call after the other, with the same arguments,
\* and the two queries on the table
InitReindex ==
    /\ ChunkIdle
    /\ SearchIdle
    /\ store = <<>>
    /\ files \in ReindexTrees
    /\ repository_id = "r1"
    /\ pc = "start"
    /\ indexable_files = <<>>
    /\ fileIdx = 0
    /\ chunks = <<>>
    /\ chunkIdx = 0
    /\ embedding = <<>>
    /\ chunks_created = 0
    /\ embeddings_generated = 0
    /\ summary = NoSummary
    /\ log = <<>>
    /\ suspended = Started(repository_id, files)

NextReindex ==
    \/ IndexBegin
    \/ IndexChunkFile
    \/ IndexEmbed
    \/ IndexStore
    \/ IndexReturn
    \/ IndexAgain
    \/ CallSearchSimilarCode
    \/ CallFindRelatedFiles

SpecReindex == InitReindex /\ [][NextReindex]_vars

Init == InitChunk \/ InitIndex \/ InitSearch

Next == NextChunking \/ NextIndex \/ NextSearch \/ NextRelated \/ NextFilter \/ NextEmbed
        \/ NextTask \/ NextConcurrent \/ NextReindex

Spec == Init /\ [][Next]_vars

-----------------------------------------------------------------------------
(* Properties of the chunking functions (SpecChunk).                        *)

\* '{' minus '}' over the lines
BraceBalance(lines) == Count(Join(lines), "{") - Count(Join(lines), "}")

\* C1: no chunk of the brace-counting strategies (_chunk_javascript_code,
\* _chunk_java_code) ends mid-block: for every input, the count of '{' minus the
\* count of '}' over all lines up to and including the last line of each emitted
\* chunk is zero.
C1_BraceChunksEndBalanced ==
    out.op \in {"javascript", "java"} =>
        \A i \in 1..Len(out.chunks) :
            BraceBalance(SubSeq(Split(InContent), 1, out.chunks[i].end_line)) = 0

\* C2: the indentation-based strategy applied to Scenario A yields exactly two
\* chunks, lines 1-2 with functions ["foo"] and lines 4-5 with functions ["bar"].
C2_ScenarioAYieldsFooAndBar ==
    (out.op = "python" /\ InContent = ScenarioA) =>
        /\ Len(out.chunks) = 2
        /\ out.chunks[1].start_line = 1
        /\ out.chunks[1].end_line = 2
        /\ out.chunks[1].functions = <<<<"f", "o", "o">>>>
        /\ out.chunks[2].start_line = 4
        /\ out.chunks[2].end_line = 5
        /\ out.chunks[2].functions = <<<<"b", "a", "r">>>>

\* C3: every chunk of every strategy (indentation-based, brace-counting, size-based)
\* has 1-based inclusive line numbers: start_line >= 1 and start_line <= end_line.
C3_LineNumbersOneBased ==
    out.op \in {"python", "javascript", "java", "size"} =>
        \A i \in 1..Len(out.chunks) :
            /\ out.chunks[i].start_line >= 1
            /\ out.chunks[i].start_line <= out.chunks[i].end_line

-----------------------------------------------------------------------------
(* Properties of index_repository (SpecIndex).                              *)

\* the call op was made for chunk c of file f (c = 0 for _chunk_file, whose event
\* records in n the number of chunks it returned)
Logged(op, f, c) ==
    \E i \in 1..Len(log) : log[i].op = op /\ log[i].file = f /\ log[i].chunk = c

\* the call op was made for chunk c of file f and succeeded
LoggedOk(op, f, c) ==
    \E i \in 1..Len(log) :
        log[i].op = op /\ log[i].file = f /\ log[i].chunk = c /\ log[i].ok

\* the structural pass is taken for the file and raises
StructuralPassFails(file_info) ==
    /\ Len(file_info.content_preview) >= min_content_length
    /\ file_info.language \in {"javascript", "typescript", "python", "java"}
    /\ ChunkCodeByStructure(file_info.content_preview, file_info.path,
                            file_info.language).raised

\* C4: if the structural pass fails for a file, _chunk_file does not propagate the
\* failure: it returns the size-based chunks of the content (one per window), so
\* the file still contributes chunks to index_repository.
C4_StructuralFailureFallsBackToSize ==
    \A i \in 1..Len(log) :
        (log[i].op = "chunk_file" /\ StructuralPassFails(indexable_files[log[i].file])) =>
            /\ log[i].ok
            /\ log[i].n = WindowCount(Len(indexable_files[log[i].file].content_preview),
                                      chunk_size - chunk_overlap)

\* C5: the summary reflects only successful items: files_processed counts the files
\* whose chunking completed without failure, and embeddings_generated is the number
\* of chunks this run persisted in the store.
C5_SummaryCountsOnlySuccesses ==
    pc = "done" =>
        /\ summary.files_processed =
               Cardinality({i \in 1..Len(log) : log[i].op = "chunk_file" /\ log[i].ok})
        /\ summary.embeddings_generated = Len(store)

\* C6: a failure while chunking one file, an absent embedding for one chunk or a
\* failed store insert for one chunk never aborts the run: while the run has not
\* returned, its loop is at a file or a chunk it goes on with (or at the return);
\* and when it has returned its summary, every selected file was chunked, every
\* chunk of every file was sent to the embedding provider, and every chunk with an
\* embedding was sent to the store.
C6_FailuresDoNotAbortTheRun ==
    /\ pc = "files" => fileIdx \in 1..(Len(indexable_files) + 1)
    /\ (pc = "files" /\ fileIdx > Len(indexable_files)) => ENABLED IndexReturn
    /\ pc = "embed" => ENABLED IndexEmbed
    /\ pc = "store" => ENABLED IndexStore
    /\ pc = "done" =>
        /\ \A f \in 1..Len(indexable_files) : Logged("chunk_file", f, 0)
        /\ \A i \in 1..Len(log) :
            log[i].op = "chunk_file" =>
                \A c \in 1..log[i].n :
                    /\ Logged("embed", log[i].file, c)
                    /\ LoggedOk("embed", log[i].file, c) => Logged("store", log[i].file, c)

\* a finished run in which a file failed to chunk, then an embedding was absent,
\* then an insert failed, and a later chunk was still stored
C6_RunWithEveryFailure ==
    /\ pc = "done"
    /\ \E i, j, k, l \in 1..Len(log) :
        /\ i < j /\ j < k /\ k < l
        /\ log[i].op = "chunk_file" /\ ~log[i].ok
        /\ log[j].op = "embed" /\ ~log[j].ok
        /\ log[k].op = "store" /\ ~log[k].ok
        /\ log[l].op = "store" /\ log[l].ok

-----------------------------------------------------------------------------
(* Properties of search_similar_code (SpecSearch).                          *)

\* the call reached the database and the query was executed
SearchExecuted == query.op = "search" /\ query.query_embedding # <<>> /\ query.db_ok

\* the rows of the table that were returned
ReturnedRows == {results[k].row : k \in 1..Len(results)}

\* the position of row i in the result
Position(i) == CHOOSE k \in 1..Len(results) : results[k].row = i

\* the similarity of row i of the table to the query vector
RowScore(i) == Similarity(store[i].embedding, query.query_embedding)

RowInRepositories(i) ==
    \E k \in 1..Len(query.repository_ids) :
        query.repository_ids[k] = store[i].repository_id

\* score > threshold, score >= threshold, score = threshold
ScoreOver(score, threshold) ==
    score.num * threshold[2] * threshold[2] > threshold[1] * threshold[1] * score.den

ScoreAtLeast(score, threshold) ==
    score.num * threshold[2] * threshold[2] >= threshold[1] * threshold[1] * score.den

ScoreEquals(score, threshold) ==
    score.num * threshold[2] * threshold[2] = threshold[1] * threshold[1] * score.den

\* the result has room for one more row
RoomLeft == Len(results) < query.limit

\* Scenario B: threshold 0.9, and the only row of the store has similarity 0.5
ScenarioB ==
    /\ query.similarity_threshold = <<9, 10>>
    /\ Len(store) = 1
    /\ ScoreEquals(RowScore(1), <<1, 2>>)

\* C7: results are in descending order of similarity with ties broken by storage
\* order: of two qualifying rows of equal score the one inserted first always
\* comes first, so the result is determined by the store and the query.
C7_TiesInStorageOrder ==
    SearchExecuted =>
        /\ \A i, j \in 1..Len(results) :
            i < j => ~ScoreLess(results[i].similarity_score, results[j].similarity_score)
        /\ \A a, b \in Qualifying(store, query) :
            (a < b /\ ~ScoreLess(RowScore(a), RowScore(b))
                   /\ ~ScoreLess(RowScore(b), RowScore(a))
                   /\ b \in ReturnedRows) =>
                (a \in ReturnedRows /\ Position(a) < Position(b))

\* C8 as stated: exactly the rows with a score below similarity_threshold are
\* filtered out: every returned score is >= the threshold, a row whose score
\* equals the threshold is eligible (returned while the limit leaves room), and
\* in Scenario B the result is empty.
C8_FiltersBelowThreshold ==
    SearchExecuted =>
        /\ \A k \in 1..Len(results) :
            ScoreAtLeast(results[k].similarity_score, query.similarity_threshold)
        /\ \A i \in 1..Len(store) :
            ( /\ ~query.given \/ RowInRepositories(i)
              /\ ScoreAtLeast(RowScore(i), query.similarity_threshold)
              /\ RoomLeft ) => i \in ReturnedRows
        /\ ScenarioB => results = <<>>

\* C8 amended: exactly the rows with a score not above similarity_threshold are
\* filtered out: every returned score is > the threshold, a row whose score equals
\* the threshold is never returned, a row whose score is above it is eligible, and
\* in Scenario B the result is empty.
C8_FiltersAtOrBelowThreshold ==
    SearchExecuted =>
        /\ \A k \in 1..Len(results) :
            ScoreOver(RowScore(results[k].row), query.similarity_threshold)
        /\ \A i \in 1..Len(store) :
            ( /\ ~query.given \/ RowInRepositories(i)
              /\ ScoreOver(RowScore(i), query.similarity_threshold)
              /\ RoomLeft ) => i \in ReturnedRows
        /\ ScenarioB => results = <<>>

\* a search that returned a row, had room for more, and left out a row of the
\* searched repositories whose score equals the threshold
C8_RowAtThresholdLeftOut ==
    /\ SearchExecuted
    /\ results # <<>>
    /\ RoomLeft
    /\ \E i \in 1..Len(store) :
        /\ ~query.given \/ RowInRepositories(i)
        /\ ScoreEquals(RowScore(i), query.similarity_threshold)
        /\ i \notin ReturnedRows

\* C9: the result is sorted by non-increasing similarity_score, has at most limit
\* rows, and is a top-limit selection: no qualifying row that was left out has a
\* strictly higher score than a row that was returned.
C9_SortedTopLimit ==
    query.op = "search" =>
        /\ \A i, j \in 1..Len(results) :
            i < j => ~ScoreLess(RowScore(results[i].row), RowScore(results[j].row))
        /\ Len(results) <= query.limit
        /\ SearchExecuted =>
            \A i \in Qualifying(store, query) \ ReturnedRows :
                \A k \in 1..Len(results) :
                    ~ScoreLess(RowScore(results[k].row), RowScore(i))

\* a search cut by the limit: as many rows returned as the limit allows, and a
\* qualifying row of strictly lower score than a returned row left out
C9_LimitCutsLowerRow ==
    /\ SearchExecuted
    /\ Len(results) = query.limit
    /\ \E i \in Qualifying(store, query) \ ReturnedRows :
        \E k \in 1..Len(results) : ScoreLess(RowScore(i), RowScore(results[k].row))

\* C10: when repository_ids is supplied, every returned row belongs to a repository
\* of that list; when it is None, the rows of every repository are eligible (each
\* row above the threshold is returned while the limit leaves room).
C10_RepositoryFilter ==
    query.op = "search" =>
        /\ query.given => \A k \in 1..Len(results) : RowInRepositories(results[k].row)
        /\ (SearchExecuted /\ ~query.given /\ RoomLeft) =>
            \A i \in 1..Len(store) :
                ScoreOver(RowScore(i), query.similarity_threshold) => i \in ReturnedRows

\* a search restricted to repositories that returned a row and left out a row of
\* another repository that is above the threshold
C10_OtherRepositoryLeftOut ==
    /\ SearchExecuted
    /\ query.given
    /\ results # <<>>
    /\ \E i \in 1..Len(store) :
        /\ ~RowInRepositories(i)
        /\ ScoreOver(RowScore(i), query.similarity_threshold)
        /\ i \notin ReturnedRows

-----------------------------------------------------------------------------
(* Failure containment of the two queries (SpecSearch), and                 *)
(* find_related_files (SpecRelated).                                        *)

\* the store holds a chunk of the file_path argument of find_related_files
SourceFileStored == \E i \in 1..Len(store) : store[i].file_path = query.file_path

\* the similarity of row i of the table to the target row find_related_files selected
RelatedScore(i) == Similarity(store[i].embedding, store[reply.target].embedding)

\* C11: search_similar_code and find_related_files never raise to the caller: when
\* the query embedding is absent, search_similar_code returns the empty list without
\* sending a statement to the store, and when the store fails during either call
\* the call returns the empty list.
C11_QueriesNeverRaise ==
    /\ query.op \in {"search", "related"} => ~reply.raised
    /\ (query.op = "search" /\ query.query_embedding = <<>>) =>
        (results = <<>> /\ reply.queries = 0)
    /\ (query.op = "search" /\ query.query_embedding # <<>> /\ ~query.db_ok) =>
        results = <<>>
    /\ (query.op = "related" /\ query.db_fail # "none") => results = <<>>

\* a search with a query embedding whose statement failed although rows of the
\* table qualified, and that returned the empty list
C11_StoreFailureGivesEmptyList ==
    /\ query.op = "search"
    /\ query.query_embedding # <<>>
    /\ ~query.db_ok
    /\ query.limit >= 1
    /\ Qualifying(store, query) # {}
    /\ results = <<>>
    /\ ~reply.raised

\* C12: when the store holds at least one chunk for file_path, find_related_files
\* returns rows none of which has file_path equal to the argument, sorted by
\* non-increasing similarity to the embedding of the chunk it selected for
\* file_path, and at most limit of them.
C12_RelatedFilesExcludeSource ==
    (query.op = "related" /\ SourceFileStored) =>
        /\ \A k \in 1..Len(results) : store[results[k].row].file_path # query.file_path
        /\ \A k \in 1..Len(results) : results[k].file_path = store[results[k].row].file_path
        /\ results # <<>> =>
            /\ reply.target \in 1..Len(store)
            /\ store[reply.target].file_path = query.file_path
            /\ \A j, k \in 1..Len(results) :
                j < k => ~ScoreLess(RelatedScore(results[j].row), RelatedScore(results[k].row))
        /\ Len(results) <= query.limit

\* a call for a stored file that returned two rows of other files, the first of
\* strictly higher similarity than the second
C12_TwoRelatedRowsInOrder ==
    /\ query.op = "related"
    /\ SourceFileStored
    /\ Len(results) = 2
    /\ ScoreLess(RelatedScore(results[2].row), RelatedScore(results[1].row))

\* C13: find_related_files called with a file_path for which the store holds no
\* chunk returns the empty list and raises no exception, whatever else the store
\* contains.
C13_UnknownFileGivesEmptyList ==
    (query.op = "related" /\ ~SourceFileStored) => (results = <<>> /\ ~reply.raised)

\* Scenario C on a store that holds rows of other files: the call for a path no row
\* has, with a working database and room for rows, returned the empty list
C13_ScenarioC ==
    /\ query.op = "related"
    /\ ~SourceFileStored
    /\ store # <<>>
    /\ query.db_fail = "none"
    /\ query.limit >= 1
    /\ results = <<>>
    /\ ~reply.raised

-----------------------------------------------------------------------------
(* _filter_indexable_files (SpecFilter).                                    *)

\* the substring pattern occurs somewhere in path
OccursIn(pattern, path) == \E i \in 1..Len(path) : StartsAt(path, i, pattern)

\* the descriptor passes the three checks of the claim
Kept(file_info) ==
    /\ ToLower(Get(file_info, "extension", <<>>)) \in indexable_extensions
    /\ \A pattern \in exclude_patterns : ~OccursIn(pattern, ToLower(file_info.path))
    /\ Get(file_info, "size", 0) <= 1048576

\* C14: _filter_indexable_files returns exactly those input descriptors whose
\* lower-cased extension is in the whitelist, whose lower-cased path contains none
\* of the excluded substrings anywhere, and whose size does not exceed 1 MiB (a size
\* of exactly 1048576 is kept), in their input order; the input list is as it was.
C14_FilterKeepsExactlyIndexable ==
    pc = "filtered" =>
        indexable_files = SelectSeq(files, Kept)

\* a filtered list of two descriptors: the one of exactly 1048576 bytes was kept
\* and the other, with a whitelisted extension, was dropped
C14_CeilingKeptOtherDropped ==
    /\ pc = "filtered"
    /\ Len(files) = 2
    /\ Len(indexable_files) = 1
    /\ Get(indexable_files[1], "size", 0) = 1048576
    /\ \A i \in 1..2 : ToLower(Get(files[i], "extension", <<>>)) \in indexable_extensions

-----------------------------------------------------------------------------
(* _chunk_file, the size-based strategy and _determine_chunk_type           *)
(* (SpecChunk).                                                             *)

\* one of the two harness calls of _chunk_file was made
ChunkFileCalled == out.op \in {"file", "file_untagged"}

\* C15: for every file whose content is empty or shorter than 50 characters,
\* _chunk_file returns zero chunks regardless of the language tag; content of
\* exactly 50 characters is not rejected by this check (it reaches a strategy,
\* which returns chunks or raises).
C15_ShortContentYieldsNoChunks ==
    ChunkFileCalled =>
        /\ Len(InContent) < 50 => (out.chunks = <<>> /\ ~out.raised)
        /\ Len(InContent) = 50 => (out.chunks # <<>> \/ out.raised)

\* _chunk_file was called on Scenario A, 49 characters of Python, and returned
\* no chunk
C15_ScenarioATooShort ==
    /\ out.op = "file"
    /\ inLang = "python"
    /\ InContent = ScenarioA
    /\ Len(InContent) = 49
    /\ out.chunks = <<>>
    /\ ~out.raised

\* the distance between the starts of two consecutive windows
WindowStep == chunk_size - chunk_overlap

\* the 0-based offset at which the i-th chunk (i = 1, 2, ...) starts
WindowStart(i) == (i - 1) * WindowStep

\* C16: the size-based strategy emits as its i-th chunk (i = 0, 1, ...) the
\* substring starting at offset i*(chunk_size - chunk_overlap) of length
\* min(chunk_size, remaining content), for every start offset below the content
\* length; hence every chunk has length <= chunk_size and each pair of consecutive
\* chunks shares exactly chunk_overlap characters, except possibly the pair ending
\* in the last chunk.
C16_SizeWindows ==
    out.op = "size" =>
        /\ ~out.raised
        /\ Len(out.chunks) =
               Cardinality({i \in 0..Len(InContent) : i * WindowStep < Len(InContent)})
        /\ \A i \in 1..Len(out.chunks) :
            /\ out.chunks[i].content =
                   SubSeq(InContent, WindowStart(i) + 1,
                          WindowStart(i) + Min(chunk_size, Len(InContent) - WindowStart(i)))
            /\ Len(out.chunks[i].content) <= chunk_size
        /\ \A i \in 1..(Len(out.chunks) - 2) :
            WindowStart(i) + Len(out.chunks[i].content) - WindowStart(i + 1) = chunk_overlap

\* a content of three windows: the first two full, the third shorter
C16_ThreeWindows ==
    /\ out.op = "size"
    /\ Len(out.chunks) = 3
    /\ Len(out.chunks[1].content) = chunk_size
    /\ Len(out.chunks[2].content) = chunk_size
    /\ Len(out.chunks[3].content) < chunk_size

\* C17: for size-based chunks the line ranges cover the file with no gaps: the
\* first chunk has start_line 1, each later chunk's start_line is at most the
\* previous chunk's end_line + 1, and the last chunk's end_line is the number of
\* the file's last line (1 + the number of newlines in the content).
C17_SizeLineRangesCoverFile ==
    (out.op = "size" /\ out.chunks # <<>>) =>
        /\ out.chunks[1].start_line = 1
        /\ \A i \in 2..Len(out.chunks) :
            out.chunks[i].start_line <= out.chunks[i - 1].end_line + 1
        /\ out.chunks[Len(out.chunks)].end_line = 1 + Count(InContent, "\n")

\* a content of several lines and several windows: the second chunk starts on a
\* later line than the first, and the last chunk ends on line 3
C17_WindowsOverSeveralLines ==
    /\ out.op = "size"
    /\ Len(out.chunks) >= 2
    /\ out.chunks[2].start_line > 1
    /\ out.chunks[Len(out.chunks)].end_line = 3

\* the tag _chunk_file reads for the harness call: the language of the descriptor,
\* 'unknown' when it has none
TagRead == IF out.op = "file_untagged" THEN "unknown" ELSE inLang

\* the language tag is none of the four structural ones
UnmappedTag == inLang \notin {"python", "javascript", "typescript", "java"}

\* C18 as stated: for a file whose language tag is not python, javascript,
\* typescript or java (including a missing tag, which defaults to 'unknown'),
\* _chunk_file returns exactly the chunks of the size-based strategy and never
\* raises because of the tag.
C18_UnmappedTagGivesSizeChunks ==
    (ChunkFileCalled /\ UnmappedTag) =>
        /\ ~out.raised
        /\ out.chunks = ChunkCodeBySize(InContent, HarnessPath, TagRead).chunks

\* C18 amended: for a file of at least 50 characters whose language tag is not
\* python, javascript, typescript or java (including a missing tag, which defaults
\* to 'unknown'), _chunk_file returns exactly the chunks of the size-based strategy,
\* and for no content does it raise because of the tag.
C18_UnmappedTagGivesSizeChunksOfLongContent ==
    (ChunkFileCalled /\ UnmappedTag) =>
        /\ ~out.raised
        /\ Len(InContent) >= 50 =>
            out.chunks = ChunkCodeBySize(InContent, HarnessPath, TagRead).chunks

\* _chunk_file was called on a descriptor without a language tag and with a content
\* of two windows, and returned two chunks tagged 'unknown'
C18_UntaggedFileInTwoWindows ==
    /\ out.op = "file_untagged"
    /\ Len(InContent) > WindowStep
    /\ Len(out.chunks) = 2
    /\ out.chunks[1].language = "unknown"
    /\ out.chunks[2].start_line = 2

\* one of the keywords occurs in the content, whatever the case of its letters
Mentions(content, keywords) ==
    \E keyword \in keywords : OccursIn(keyword, ToLower(content))

\* C19: a chunk's chunk_type is decided by the first matching rule in this order:
\* a non-empty class list gives 'class'; else a non-empty function list gives
\* 'function'; else content containing 'config', 'settings' or 'env'
\* (case-insensitive) gives 'config'; else content containing 'test' or 'spec'
\* (case-insensitive as well) gives 'test'; else 'general'.  The result is always
\* one of these five values.
C19_ChunkTypeFirstRuleWins ==
    out.op = "chunk_type" =>
        /\ out.chunk_type \in {"class", "function", "config", "test", "general"}
        /\ out.chunk_type = "class" <=> out.classes # <<>>
        /\ out.chunk_type = "function" <=> (out.classes = <<>> /\ out.functions # <<>>)
        /\ out.chunk_type = "config" <=>
            /\ out.classes = <<>> /\ out.functions = <<>>
            /\ Mentions(out.content, {<<"c", "o", "n", "f", "i", "g">>, <<"s", "e", "t", "t", "i", "n", "g", "s">>, <<"e", "n", "v">>})
        /\ out.chunk_type = "test" <=>
            /\ out.classes = <<>> /\ out.functions = <<>>
            /\ ~Mentions(out.content, {<<"c", "o", "n", "f", "i", "g">>, <<"s", "e", "t", "t", "i", "n", "g", "s">>, <<"e", "n", "v">>})
            /\ Mentions(out.content, {<<"t", "e", "s", "t">>, <<"s", "p", "e", "c">>})

\* a content with a class, a function and keywords of both lists was classified
\* as 'class'
C19_ClassBeforeEverything ==
    /\ out.op = "chunk_type"
    /\ out.classes # <<>>
    /\ out.functions # <<>>
    /\ Mentions(out.content, {<<"c", "o", "n", "f", "i", "g">>})
    /\ Mentions(out.content, {<<"t", "e", "s", "t">>})
    /\ out.chunk_type = "class"

-----------------------------------------------------------------------------
(* _generate_embedding inside index_repository (SpecIndex).                 *)

\* the number of chunks _chunk_file returned for file f
ChunksOf(f) ==
    LET i == CHOOSE j \in 1..Len(log) : log[j].op = "chunk_file" /\ log[j].file = f
    IN  log[i].n

\* index_repository is at, or has just called the provider for, chunk c of file f
GoesOnWithChunk(i, f, c) ==
    IF i < Len(log)
    THEN log[i + 1].op = "embed" /\ log[i + 1].file = f /\ log[i + 1].chunk = c
    ELSE pc = "embed" /\ fileIdx = f /\ chunkIdx = c

\* index_repository is at, or has just chunked, the file after f, or has returned
GoesOnAfterFile(i, f) ==
    IF i < Len(log)
    THEN log[i + 1].op = "chunk_file" /\ log[i + 1].file = f + 1
    ELSE pc \in {"files", "done"} /\ fileIdx = f + 1

\* C20: _generate_embedding never raises: when no provider client is configured,
\* or when tokenizing or the provider call fails, it returns absent (None);
\* index_repository then skips that chunk (no row is stored for it and
\* embeddings_generated is not incremented) and continues with the next chunk of
\* the file, or with the next file after the last chunk.
C20_AbsentEmbeddingSkipsChunk ==
    /\ \A i \in 1..Len(log) :
        (log[i].op = "embed" /\ ~log[i].ok) =>
            /\ ~Logged("store", log[i].file, log[i].chunk)
            /\ IF log[i].chunk < ChunksOf(log[i].file)
               THEN GoesOnWithChunk(i, log[i].file, log[i].chunk + 1)
               ELSE GoesOnAfterFile(i, log[i].file)
    /\ pc # "idle" =>
        /\ embeddings_generated = Cardinality({i \in 1..Len(log) : log[i].op = "store"})
        /\ Len(store) <= Cardinality({i \in 1..Len(log) : log[i].op = "embed" /\ log[i].ok})

\* a finished run in which the provider gave no embedding for a chunk, the next
\* chunk of the same file was embedded and stored, and fewer embeddings than
\* chunks were counted
C20_SkippedChunkThenStoredChunk ==
    /\ pc = "done"
    /\ summary.embeddings_generated < summary.chunks_created
    /\ \E i \in 1..(Len(log) - 2) :
        /\ log[i].op = "embed" /\ ~log[i].ok
        /\ log[i + 1].op = "embed" /\ log[i + 1].ok
        /\ log[i + 1].file = log[i].file
        /\ log[i + 2].op = "store" /\ log[i + 2].ok
-----------------------------------------------------------------------------
(* Claims C21 to C30.                                                       *)

GenerateEmbeddingCalled == out.op = "generate_embedding"

\* C21: the text _generate_embedding hands to the provider is the text itself when
\* the text has at most max_tokens tokens, and else the decoding of its first
\* max_tokens tokens, which has max_tokens tokens; it depends on the text alone
C21_InputTruncatedAtTokenBoundary ==
    (GenerateEmbeddingCalled /\ out.requested) =>
        LET tokens == TokenizerEncode(InContent)
        IN  IF Len(tokens) <= max_tokens
            THEN out.input = InContent
            ELSE /\ out.input = TokenizerDecode(SubSeq(tokens, 1, max_tokens))
                 /\ Len(TokenStarts(out.input)) = max_tokens

\* a text of max_tokens + 2 tokens that begins with tokens of several characters
\* was sent cut
C21_LongTextSentCut ==
    /\ GenerateEmbeddingCalled
    /\ out.requested
    /\ inLines = <<<<"a", "b", " ", "c", "d">>, LongTokenLine>>
    /\ Len(out.input) = Len(InContent) - 2

\* C22: once cancellation of an index_repository run is requested, the run stops at
\* the next file boundary: no file after the one that was current at the request is
\* chunked, and no row of the store is lost
C22_CancellationStopsAtFileBoundary ==
    /\ \A i \in 1..Len(log) : \A j \in (i + 1)..Len(log) :
        (log[i].op = "cancel" /\ log[j].op = "chunk_file") => log[j].file <= log[i].file
    /\ Len(store) = Cardinality({i \in 1..Len(log) : log[i].op = "store" /\ log[i].ok})

\* C23: every run of index_repository returns its summary in the end, also when a
\* provider call or a store write of some chunk never completes
C23_RunEventuallyReturns == <>(pc = "done")

-----------------------------------------------------------------------------
(* Two index_repository calls of one service (SpecConcurrent).              *)

\* the chunks of the first n files of a selection whose chunking did not raise
RECURSIVE ChunksCreatedAlone(_, _)
ChunksCreatedAlone(selected, n) ==
    IF n = 0 THEN 0
    ELSE ChunksCreatedAlone(selected, n - 1)
         + (IF ChunkFileOf[selected[n]].raised THEN 0
            ELSE Len(ChunkFileOf[selected[n]].chunks))

\* the summary of the call of frame f when it runs alone and the provider gives the
\* outcomes of f's history: every selected file counted, the chunks of the files that
\* chunked, one embedding per chunk the provider answered
SummaryAlone(f) ==
    [repository_id        |-> f.repository_id,
     files_processed      |-> Len(FilterIndexableFiles(f.files)),
     chunks_created       |-> ChunksCreatedAlone(FilterIndexableFiles(f.files),
                                                 Len(FilterIndexableFiles(f.files))),
     embeddings_generated |->
         Cardinality({i \in 1..Len(f.log) : f.log[i].op = "embed" /\ f.log[i].ok})]

\* the row of the insert that event e of frame f records
RowOfEvent(f, e) ==
    Row(f.repository_id, ChunkFileOf[f.indexable_files[e.file]].chunks[e.chunk],
        CHOOSE v \in IndexVectors : TRUE)

RowsOfEvents(f, events) == [i \in 1..Len(events) |-> RowOfEvent(f, events[i])]

\* the rows the call of frame f persisted, in order
RowsOf(f) == RowsOfEvents(f, SelectSeq(f.log, LAMBDA e : e.op = "store" /\ e.ok))

\* table holds the rows of a and the rows of b, each in its order
RECURSIVE IsMerge(_, _, _)
IsMerge(table, a, b) ==
    IF table = <<>> THEN a = <<>> /\ b = <<>>
    ELSE \/ a # <<>> /\ Head(table) = Head(a) /\ IsMerge(Tail(table), Tail(a), b)
         \/ b # <<>> /\ Head(table) = Head(b) /\ IsMerge(Tail(table), a, Tail(b))

\* C24: however two index_repository calls of one service interleave at their await
\* points, each returns the summary it returns when run alone with the same provider
\* and store outcomes (a file that fails to chunk counts for nothing and leaves the
\* counts of the other files and of the other call alone), and the store holds the
\* rows of both calls
C24_ConcurrentRunsIndependent ==
    /\ \A f \in {Frame, suspended} : f.pc = "done" => f.summary = SummaryAlone(f)
    /\ IsMerge(store, RowsOf(Frame), RowsOf(suspended))

\* both calls have returned, the one over the failing file and the file of two chunks
\* and the one over the file of one chunk; the row of the second lies between the
\* rows of the first
C24_RowsInterleaved ==
    /\ pc = "done"
    /\ suspended.pc = "done"
    /\ {Len(files), Len(suspended.files)} = {1, 2}
    /\ {summary.chunks_created, suspended.summary.chunks_created} = {1, 2}
    /\ Len(store) = 3
    /\ store[1].file_path = FilePy.path
    /\ store[2].file_path = FileSh.path
    /\ store[3].file_path = FilePy.path

-----------------------------------------------------------------------------
(* index_repository called twice on one tree (SpecReindex).                 *)

\* the rows of the chunks of the first n files of a selection, in order
RECURSIVE RowsOfFiles(_, _, _)
RowsOfFiles(repo, selected, n) ==
    IF n = 0 THEN <<>>
    ELSE RowsOfFiles(repo, selected, n - 1)
         \o [i \in 1..Len(ChunkFileOf[selected[n]].chunks) |->
                Row(repo, ChunkFileOf[selected[n]].chunks[i], CHOOSE v \in IndexVectors : TRUE)]

\* one row for every chunk of the files selected from the tree of frame f
RowsOfTree(f) == RowsOfFiles(f.repository_id, f.indexable_files, Len(f.indexable_files))

\* table begins with the rows of before, unchanged
Extends(before, table) ==
    /\ Len(before) <= Len(table)
    /\ SubSeq(table, 1, Len(before)) = before

\* frame f has returned and the provider and the database did all it asked for
SucceededThroughout(f) ==
    /\ f.pc = "done"
    /\ \A i \in 1..Len(f.log) : f.log[i].ok

\* when both calls have succeeded throughout, the table holds the rows of the tree
\* twice
EveryRowTwice ==
    (SucceededThroughout(Frame) /\ SucceededThroughout(suspended)) =>
        store = RowsOfTree(suspended) \o RowsOfTree(Frame)

\* C25: a step of index_repository leaves the rows of the table as they are and at
\* most appends to them, search_similar_code and find_related_files leave the table
\* unchanged, and after two calls of index_repository on one tree, with every
\* embedding and insert succeeding, the row of each chunk is in the table twice
C25_StoreOnlyGrows ==
    [][/\ Extends(store, store')
       /\ query' # query => store' = store
       /\ EveryRowTwice']_vars

\* the tree of one file of two chunks was indexed twice, and then searched: four
\* rows, the third and fourth equal to the first and second
C25_FourRowsAfterSecondRun ==
    /\ SucceededThroughout(Frame)
    /\ SucceededThroughout(suspended)
    /\ Len(store) = 4
    /\ store[3] = store[1]
    /\ store[4] = store[2]
    /\ store[1] # store[2]
    /\ query.op = "search"
    /\ Len(results) = 2

-----------------------------------------------------------------------------
(* The order of the calls of index_repository (SpecIndex).                  *)

\* event i of the history is the call op for chunk c of file f
IsCall(i, op, f, c) == log[i].op = op /\ log[i].file = f /\ log[i].chunk = c

\* C26: index_repository calls _store_chunk for a chunk exactly when the provider
\* call for that chunk gave a non-empty embedding, and right after that call; the
\* inserts follow the order of the selected files and, within a file, of its chunks;
\* the returned embeddings_generated is at most chunks_created
C26_InsertFollowsEmbeddingInOrder ==
    /\ \A i \in 1..Len(log) :
        log[i].op = "store" =>
            /\ i > 1
            /\ IsCall(i - 1, "embed", log[i].file, log[i].chunk)
            /\ log[i - 1].ok
    /\ \A i \in 1..Len(log) :
        (log[i].op = "embed" /\ log[i].ok) =>
            IF i < Len(log)
            THEN IsCall(i + 1, "store", log[i].file, log[i].chunk)
            ELSE pc = "store" /\ fileIdx = log[i].file /\ chunkIdx = log[i].chunk
    /\ \A i \in 1..Len(log) :
        (log[i].op = "embed" /\ ~log[i].ok /\ i < Len(log)) => log[i + 1].op # "store"
    /\ \A i \in 1..Len(log) : \A j \in (i + 1)..Len(log) :
        (log[i].op = "store" /\ log[j].op = "store") =>
            \/ log[i].file < log[j].file
            \/ log[i].file = log[j].file /\ log[i].chunk < log[j].chunk
    /\ pc = "done" => summary.embeddings_generated <= summary.chunks_created

\* a finished run over two files: the first and third chunk of the first file were
\* stored, its second chunk had no embedding, and a chunk of the second file was
\* stored after them
C26_InsertsOfTwoFiles ==
    /\ pc = "done"
    /\ summary.embeddings_generated = 3
    /\ summary.chunks_created = 4
    /\ \E i, j, k, l \in 1..Len(log) :
        /\ i < j /\ j < k /\ k < l
        /\ IsCall(i, "store", 1, 1)
        /\ IsCall(j, "embed", 1, 2) /\ ~log[j].ok
        /\ IsCall(k, "store", 1, 3)
        /\ IsCall(l, "store", 2, 1)

-----------------------------------------------------------------------------
(* The lists and the metadata of a chunk (SpecChunk).                       *)

\* the names captured by the matches of the function pattern
FullNames(matches) == [i \in 1..Len(matches) |-> matches[i].g1]

\* C27: the functions of a Python chunk are the full names of the function
\* definitions matched in its content, in order of appearance (no Java chunk is
\* ever created, so the claim says nothing more for Java)
C27_FunctionsHoldFullNames ==
    \A i \in 1..Len(out.chunks) :
        out.chunks[i].language = "python" =>
            out.chunks[i].functions =
                FullNames(FindAllFunctions(out.chunks[i].content, 1, "python"))

\* C28: for a file tagged python, javascript, typescript or java whose content has
\* at least min_content_length characters, _chunk_file does not raise and returns
\* at least one chunk
C28_StructuralFileYieldsChunk ==
    (/\ out.op = "file"
     /\ inLang \in {"python", "javascript", "typescript", "java"}
     /\ Len(InContent) >= min_content_length) =>
        /\ ~out.raised
        /\ out.chunks # <<>>

\* the contents of the chunks joined by newlines
ChunkContents(cs) == Join([i \in 1..Len(cs) |-> cs[i].content])

\* a structural strategy was applied to the content of the harness
StructuralCall == out.op \in {"python", "javascript", "java"}

\* C29: a structural strategy returns chunks that partition the lines of the file:
\* the contents of the chunks, joined by newlines in the order of the chunks, are the
\* content of the file, and every chunk after the first begins on the line after the
\* end of the chunk before it
C29_StructuralChunksPartitionLines ==
    StructuralCall =>
        /\ ~out.raised
        /\ ChunkContents(out.chunks) = InContent
        /\ \A i \in 2..Len(out.chunks) :
            out.chunks[i].start_line = out.chunks[i - 1].end_line + 1

\* C30: the metadata of every chunk agree with its content and its line range:
\* char_count is the length of the content, line_count is one more than the number
\* of newlines in the content, and line_count is end_line - start_line + 1
C30_MetadataMatchesContentAndRange ==
    \A i \in 1..Len(out.chunks) :
        /\ out.chunks[i].metadata.char_count = Len(out.chunks[i].content)
        /\ out.chunks[i].metadata.line_count = Count(out.chunks[i].content, "\n") + 1
        /\ out.chunks[i].metadata.line_count =
               out.chunks[i].end_line - out.chunks[i].start_line + 1


====
